---- MODULE Spec2Model ----
(***************************************************************************)
(* Model of the axon projection engine (axon.Prjn): sparse connectivity,   *)
(* the per-synapse state, the delayed-conductance ring buffer, the synapse *)
(* accessors, the weights file, and the weight commit / synaptic scaling.  *)
(*                                                                         *)
(* float32 values are fixed-point integers in units of 1/ONE; products and *)
(* quotients truncate toward zero.  Go slices are functions on 0..n-1, so  *)
(* the index arithmetic of the source (ri*sz+di) is kept as written.       *)
(* Two variants of Prjn live in the source: the structural one (synapses   *)
(* carry SWt) and the Scale one (synapses carry Scale); `variant` selects  *)
(* the code a behaviour runs.                                              *)
(***************************************************************************)
EXTENDS Integers, Sequences, FiniteSets, TLC

\* ---------------------------------------------------------------- bounds
ONE == 16          \* fixed-point unit: the integer that stands for 1.0
NSend == 3         \* neurons of the sending layer
NRecv == 2         \* neurons of the receiving layer
MaxDelay == 2      \* largest Com.Delay a projection is built with
MaxCycle == 3      \* cycles (RecvGInc calls) of a behaviour
MaxOps == 1        \* accessor / learning operations of a behaviour
MaxParamOps == 1   \* parameter updates and re-initializations of a behaviour
MaxFileOps == 3    \* weights-file operations of a behaviour
ParamCycles == 2   \* cycles of a behaviour with parameter updates
WtsPrec == 2       \* significant binary digits the weights file keeps
MaxTrials == 2     \* trials of a training behaviour

VARIABLES
    variant,   \* "SWt" (structural Prjn) or "Scale" (Scale Prjn)
    Con,       \* connectivity pattern: the connected <<sender, receiver>> pairs
    Typ,       \* projection type: "Inhib" or "Forward"
    Com,       \* SynComParams: [Delay]
    Gidx,      \* ringidx.FIx: [Zi, Len]
    Gbuf,      \* conductance ring buffer, receiver-major
    GScale,    \* GScaleVals
    Syns,      \* synapses, sender-major
    Learn,     \* LearnSynParams: [Learn, Lrate, LrateInit, WtSig]
    Neurons,   \* receiving layer neurons: [GeRaw, GiRaw]
    file,      \* the weights file last written, or NoFile
    panicked,  \* TRUE once an index was out of range (Go run-time panic)
    cyc,       \* number of RecvGInc calls so far (the current cycle)
    sendPos,   \* senders below sendPos have had their turn in the current cycle
    PlusPhase, \* ltime.PlusPhase of the latest cycle
    nops,      \* accessor / learning operations so far
    sched,     \* history: conductance sent so far, by receiver and arrival cycle
    IsTarget,  \* rlay.AxonLay.IsTarget(): the receiving layer is a target layer
    SWt,       \* SWtParams: [Adapt: [SubNorm], Limit: [SWt: [Min, Max]]]
    SWtMeans,  \* target mean structural weight of each receiver
    rpj,       \* the reciprocal projection (Recv to Send): [Con, Syns, Gbuf]
    pj2,       \* a second projection into the receiving layer: [Typ, Com, Gidx, Gbuf, GScale]
    last       \* history: the operation that led to this state, its inputs and result

vars == <<variant, Con, Typ, Com, Gidx, Gbuf, GScale, Syns, Learn, Neurons, file,
          panicked, cyc, sendPos, PlusPhase, nops, sched, last, IsTarget, SWt, SWtMeans, rpj, pj2>>

\* ------------------------------------------------------------ fixed point
Half == ONE \div 2
Abs(x) == IF x < 0 THEN -x ELSE x
Sgn(x) == IF x < 0 THEN -1 ELSE 1

\* float32 product a*b
MulFx(a, b) == Sgn(a) * Sgn(b) * ((Abs(a) * Abs(b)) \div ONE)

\* float32 quotient a/b, b # 0
DivFx(a, b) == Sgn(a) * Sgn(b) * ((Abs(a) * ONE) \div Abs(b))

NaN == [nan |-> TRUE, v |-> 0]

\* a float32 result that is a number
Num(x) == [nan |-> FALSE, v |-> x]

Senders == 0 .. (NSend - 1)
Recvs == 0 .. (NRecv - 1)

\* ---------------------------------------------------------- connectivity
\* Patterns a projection is built from: full, and one with missing pairs.
PatFull == Senders \X Recvs
PatUpper == {p \in Senders \X Recvs : p[1] <= p[2]}
PatSkipFirst == {p \in Senders \X Recvs : p[1] + p[2] >= 1}

\* number of receivers below ri that sender si connects to
RECURSIVE CountBelow(_, _)
CountBelow(si, ri) ==
    IF ri <= 0 THEN 0
    ELSE CountBelow(si, ri - 1) + (IF <<si, ri - 1>> \in Con THEN 1 ELSE 0)

\* out-degree of sender si
SConN(si) == CountBelow(si, NRecv)

\* start of sender si's synapses in the sender-major arrays
RECURSIVE SConIdxSt(_)
SConIdxSt(si) == IF si <= 0 THEN 0 ELSE SConIdxSt(si - 1) + SConN(si - 1)

NSyn == SConIdxSt(NSend)
SynIds == 0 .. (NSyn - 1)

\* sender that owns synapse slot i
SynSend(i) == CHOOSE si \in Senders : SConIdxSt(si) <= i /\ i < SConIdxSt(si) + SConN(si)

\* SConIdx[i]: receiver of synapse slot i (ascending within a sender)
SConIdx(i) ==
    LET si == SynSend(i)
    IN  CHOOSE ri \in Recvs : <<si, ri>> \in Con /\ SConIdxSt(si) + CountBelow(si, ri) = i

\* number of senders below si that connect to receiver ri
RECURSIVE CountSendBelow(_, _)
CountSendBelow(ri, si) ==
    IF si <= 0 THEN 0
    ELSE CountSendBelow(ri, si - 1) + (IF <<si - 1, ri>> \in Con THEN 1 ELSE 0)

\* in-degree of receiver ri
RConN(ri) == CountSendBelow(ri, NSend)

RECURSIVE RConIdxSt(_)
RConIdxSt(ri) == IF ri <= 0 THEN 0 ELSE RConIdxSt(ri - 1) + RConN(ri - 1)

\* receiver that owns receiver-view position p
RPosRecv(p) == CHOOSE ri \in Recvs : RConIdxSt(ri) <= p /\ p < RConIdxSt(ri) + RConN(ri)

\* RConIdx[p]: sender at receiver-view position p (ascending within a receiver)
RConIdx(p) ==
    LET ri == RPosRecv(p)
    IN  CHOOSE si \in Senders : <<si, ri>> \in Con /\ RConIdxSt(ri) + CountSendBelow(ri, si) = p

\* RSynIdx[p]: the sender-major slot of the connection at receiver-view position p
RSynIdx(p) ==
    LET ri == RPosRecv(p)
        si == RConIdx(p)
    IN  SConIdxSt(si) + CountBelow(si, ri)

\* ------------------------------------------------------------- ring index
\* ringidx.FIx.Idx: physical index of logical index i
GidxIdx(gi, i) == IF i + gi.Zi >= gi.Len THEN i + gi.Zi - gi.Len ELSE i + gi.Zi

\* ringidx.FIx.Shift: move the zero index up by n
GidxShift(gi, n) == [gi EXCEPT !.Zi = GidxIdx(gi, n)]

\* ------------------------------------------------------- weight transform
\* the parameter sets of WtSigParams a projection runs with: Gain is a whole
\* number, Off is fixed-point (identity path, fast path, general path)
WtSigSets == {[Gain |-> 1, Off |-> ONE], [Gain |-> 6, Off |-> ONE], [Gain |-> 2, Off |-> ONE]}

RECURSIVE PowInt(_, _)
PowInt(x, n) == IF n <= 0 THEN 1 ELSE x * PowInt(x, n - 1)

\* nearest fixed-point value of num/den, den > 0, num >= 0
RatioFx(num, den) == (2 * ONE * num + den) \div (2 * den)

\* SigFun: 1 / (1 + ((off*(1-w))/w)^gain)
SigFun(w, gain, off) ==
    IF w <= 0 THEN 0
    ELSE IF w >= ONE THEN ONE
    ELSE LET a == PowInt(w, gain)
             b == PowInt(MulFx(off, ONE - w), gain)
         IN  RatioFx(a, a + b)

\* SigFun61: pw = (1-w)/w; 1 / (1 + pw*pw*pw*pw*pw*pw)
SigFun61(w) ==
    IF w <= 0 THEN 0
    ELSE IF w >= ONE THEN ONE
    ELSE LET a == w * w * w * w * w * w
             b == (ONE - w) * (ONE - w) * (ONE - w) * (ONE - w) * (ONE - w) * (ONE - w)
         IN  RatioFx(a, a + b)

\* largest r with (r/ONE)^n <= num/den: the fixed-point n-th root of num/den
RECURSIVE RootFx(_, _, _, _)
RootFx(num, den, n, r) ==
    IF PowInt(r + 1, n) * den > num * PowInt(ONE, n) THEN r
    ELSE RootFx(num, den, n, r + 1)

\* SigInvFun: 1 / (1 + pow((1-w)/w, 1/gain)/off)
SigInvFun(w, gain, off) ==
    IF w <= 0 THEN 0
    ELSE IF w >= ONE THEN ONE
    ELSE RatioFx(ONE, ONE + DivFx(RootFx(ONE - w, w, gain, 0), off))

\* SigInvFun61: 1 / (1 + pow((1-w)/w, 1/6))
SigInvFun61(w) ==
    IF w <= 0 THEN 0
    ELSE IF w >= ONE THEN ONE
    ELSE RatioFx(ONE, ONE + RootFx(ONE - w, w, 6, 0))

\* WtSigParams.SigFmLinWt
SigFmLinWt(ws, lw) ==
    IF ws.Gain = 1 /\ ws.Off = ONE THEN lw
    ELSE IF ws.Gain = 6 /\ ws.Off = ONE THEN SigFun61(lw)
    ELSE SigFun(lw, ws.Gain, ws.Off)

\* WtSigParams.LinFmSigWt
LinFmSigWt(ws, sw) ==
    IF ws.Gain = 1 /\ ws.Off = ONE THEN sw
    ELSE IF ws.Gain = 6 /\ ws.Off = ONE THEN SigInvFun61(sw)
    ELSE SigInvFun(sw, ws.Gain, ws.Off)

\* ------------------------------------------------------ construction state
\* no weights file written yet
NoFile == [written |-> FALSE, MetaData |-> <<>>, Rs |-> <<>>]
\* no reciprocal projection attached
NoRpj == [Con |-> {}, Syns |-> <<>>, Gbuf |-> <<>>]
NoOp == [op |-> "Build"]

\* SWtParams: the structural weights are kept within Limit.SWt (0.2 and 0.8,
\* in units of 1/ONE); the rescaling is divisive unless Adapt.SubNorm is set
SWtDefaults ==
    [Adapt |-> [SubNorm |-> FALSE], Limit |-> [SWt |-> [Min |-> 3, Max |-> 13]]]

\* The values a construction draws for the synapses repeat over the slots with
\* period 3, so that the number of drawn states does not grow with the layer
\* sizes.
SpreadOver(S) ==
    {[i \in SynIds |-> d[i % 3]] : d \in [0 .. 2 -> S]}

InitWtVals == {Half, ONE}

\* time constant of the conductance statistics (PrjnScale.AvgDt / WtScale.AvgDt)
AvgDt == Half

\* Prjn.SetWtsFunc (structural): sy.SWt = wt; sy.Wt = wt; sy.LWt = 0.5
SynSetWt(w) == [Wt |-> w, LWt |-> Half, SWt |-> w, DWt |-> 0]

\* Prjn.InitWtsSyn (Scale): Scale 0 becomes 1, Wt clipped to [0,1],
\* LWt from the unscaled Wt, then Wt *= Scale, DWt = 0
InitWtsSyn(ws, scale, w) ==
    LET sc == IF scale = 0 THEN ONE ELSE scale
        cw == IF w < 0 THEN 0 ELSE IF w > ONE THEN ONE ELSE w
    IN  [Wt |-> MulFx(cw, sc), LWt |-> LinFmSigWt(ws, cw), Scale |-> sc, DWt |-> 0]

\* GScaleVals.Init, with the scale the network computed for the projection
GScaleInit(scale) ==
    [Scale |-> scale, Orig |-> scale, Targ |-> 0, Avg |-> 0, Max |-> 0, AvgAvg |-> 0,
     AvgMax |-> 0]

\* LearnSynParams.Defaults: Lrate, at the model's resolution
LrateDef == ONE \div 4

\* XCalParams at the model's resolution: Defaults, Update, and the SubMean and
\* DWtThr of the parameter sheet
XCal ==
    [DRev |-> ONE \div 8, DThr |-> 1, LrnThr |-> 1,
     DRevRatio |-> 0 - DivFx(ONE - (ONE \div 8), ONE \div 8),
     SubMean |-> ONE, DWtThr |-> 1]

ZeroNeurons == [ri \in Recvs |-> [GeRaw |-> 0, GiRaw |-> 0]]

\* Prjn.Build: Gidx.Len = Com.Delay + 1, Gidx.Zi = 0, Gbuf = rlen * Gidx.Len zeros
BuildGidx(delay) == [Zi |-> 0, Len |-> delay + 1]
BuildGbuf(delay) == [bi \in 0 .. (NRecv * (delay + 1) - 1) |-> 0]

\* Prjn.InitGbuf
InitGbuf(buf) == [bi \in DOMAIN buf |-> 0]

ZeroSched == [ri \in Recvs |-> [c \in 0 .. (MaxCycle + MaxDelay + 1) |-> 0]]

\* another projection into the same receiving layer, as Build leaves it
BuildPrjn(typ, delay) ==
    [Typ |-> typ, Com |-> [Delay |-> delay], Gidx |-> BuildGidx(delay),
     Gbuf |-> BuildGbuf(delay), GScale |-> GScaleInit(ONE)]

\* state after Build and weight initialization, common to every specification
InitCommon(wsig, w, delay) ==
    /\ Com = [Delay |-> delay]
    /\ Gidx = BuildGidx(delay)
    /\ Gbuf = BuildGbuf(delay)
    /\ Syns = [i \in SynIds |->
                 IF variant = "SWt" THEN SynSetWt(w) ELSE InitWtsSyn(wsig, 0, w)]
    /\ Learn = [Learn |-> TRUE, Lrate |-> LrateDef, LrateInit |-> LrateDef, WtSig |-> wsig,
                XCal |-> XCal]
    /\ Neurons = ZeroNeurons
    /\ file = NoFile
    /\ panicked = FALSE
    /\ cyc = 0
    /\ sendPos = 0
    /\ PlusPhase = FALSE
    /\ nops = 0
    /\ sched = ZeroSched
    /\ last = NoOp
    /\ pj2 = BuildPrjn("Forward", 0)
    /\ rpj = NoRpj
    /\ SWtMeans = [ri \in Recvs |-> Half]
    /\ SWt = SWtDefaults
    /\ IsTarget = FALSE

\* ------------------------------------------------------------- delay line
\* a send loop that overwrites the slot instead of adding to it
RECURSIVE SendLoopSet(_, _, _, _, _, _)
SendLoopSet(buf, si, ci, sz, di, sc) ==
    IF ci >= SConN(si) THEN [buf |-> buf, ok |-> TRUE]
    ELSE LET slot == SConIdxSt(si) + ci
             bi == SConIdx(slot) * sz + di
         IN  IF bi \notin DOMAIN buf THEN [buf |-> buf, ok |-> FALSE]
             ELSE SendLoopSet([buf EXCEPT ![bi] = MulFx(sc, Syns[slot].Wt)],
                              si, ci + 1, sz, di, sc)

\* Prjn.SendSpike, the loop over the sender's synapses from connection ci on:
\* pj.Gbuf[int(ri)*sz+di] += sc * syns[ci].Wt; an index outside Gbuf panics
RECURSIVE SendLoop(_, _, _, _, _, _)
SendLoop(buf, si, ci, sz, di, sc) ==
    IF ci >= SConN(si) THEN [buf |-> buf, ok |-> TRUE]
    ELSE LET slot == SConIdxSt(si) + ci
             bi == SConIdx(slot) * sz + di
         IN  IF bi \notin DOMAIN buf THEN [buf |-> buf, ok |-> FALSE]
             ELSE SendLoop([buf EXCEPT ![bi] = @ + MulFx(sc, Syns[slot].Wt)],
                           si, ci + 1, sz, di, sc)

SendSlotNoDelay == Gidx.Zi

\* the ring slot SendSpike writes: Gidx.Idx(del)
SendSlot == GidxIdx(Gidx, Com.Delay)

\* history: what a spike of si schedules, by receiver, for cycle cyc + delay
SchedSpike(si) ==
    [ri \in Recvs |->
        IF <<si, ri>> \in Con
        THEN [sched[ri] EXCEPT ![cyc + Com.Delay] =
                 @ + MulFx(GScale.Scale, Syns[SConIdxSt(si) + CountBelow(si, ri)].Wt)]
        ELSE sched[ri]]

\* Prjn.SendSpike(si); the layer calls it for its spiking neurons in index order
SendSpike(si) ==
    /\ ~panicked
    /\ si >= sendPos
    /\ cyc < MaxCycle
    /\ LET res == SendLoop(Gbuf, si, 0, Com.Delay + 1, SendSlot, GScale.Scale)
       IN  /\ Gbuf' = res.buf
           /\ panicked' = ~res.ok
    /\ sendPos' = si + 1
    /\ sched' = SchedSpike(si)
    /\ last' = [op |-> "SendSpike", si |-> si]
    /\ UNCHANGED <<variant, Con, Typ, Com, Gidx, GScale, Syns, Learn, Neurons, file, cyc,
                   PlusPhase, nops,
                   IsTarget,
                   SWt,
                   SWtMeans,
                   rpj,
                   pj2>>

\* the drain loop of RecvGIncStats / RecvGIncNoStats from receiver ri on:
\* g := Gbuf[bi]; rn.GiRaw or rn.GeRaw += g; Gbuf[bi] = 0; max, avg, n collected
DrainSlotKeep(buf, bi) == buf

\* pj.Gbuf[bi] = 0
DrainSlot(buf, bi) == [buf EXCEPT ![bi] = 0]

\* the accumulator overwritten instead of incremented
SetRaw(nrns, ri, inhib, g) ==
    IF inhib THEN [nrns EXCEPT ![ri].GiRaw = g] ELSE [nrns EXCEPT ![ri].GeRaw = g]

\* rn.GiRaw += g for an inhibitory projection, else rn.GeRaw += g
AddRaw(nrns, ri, inhib, g) ==
    IF inhib THEN [nrns EXCEPT ![ri].GiRaw = @ + g] ELSE [nrns EXCEPT ![ri].GeRaw = @ + g]

RECURSIVE RecvLoop(_, _, _, _, _)
RecvLoop(st, ri, sz, zi, inhib) ==
    IF ri >= NRecv THEN st
    ELSE LET bi == ri * sz + zi
         IN  IF bi \notin DOMAIN st.buf THEN [st EXCEPT !.ok = FALSE]
             ELSE LET g == st.buf[bi]
                      nrn == AddRaw(st.nrn, ri, inhib, g)
                  IN  RecvLoop([buf |-> DrainSlot(st.buf, bi),
                                nrn |-> nrn,
                                max |-> IF g > st.max THEN g ELSE st.max,
                                avg |-> IF g > 0 THEN st.avg + g ELSE st.avg,
                                n |-> IF g > 0 THEN st.n + 1 ELSE st.n,
                                inc |-> [st.inc EXCEPT ![ri] = g],
                                ok |-> TRUE],
                               ri + 1, sz, zi, inhib)

Drain ==
    RecvLoop([buf |-> Gbuf, nrn |-> Neurons, max |-> 0, avg |-> 0, n |-> 0,
              inc |-> [ri \in Recvs |-> 0], ok |-> TRUE],
             0, Com.Delay + 1, Gidx.Zi, Typ = "Inhib")

\* the statistics of RecvGIncStats, folded in when n > 0
StatsUpdate(gs, d) ==
    IF d.n <= 0 THEN gs
    ELSE LET avg == d.avg \div d.n
         IN  IF variant = "SWt"
             THEN [gs EXCEPT !.Avg = avg,
                             !.AvgAvg = IF @ = 0 THEN avg ELSE @ + MulFx(AvgDt, avg - @),
                             !.Max = d.max,
                             !.AvgMax = IF @ = 0 THEN d.max ELSE @ + MulFx(AvgDt, d.max - @)]
             ELSE [gs EXCEPT !.Avg = avg,
                             !.AvgAvg = @ + MulFx(AvgDt, avg - @),
                             !.Max = d.max,
                             !.AvgMax = @ + MulFx(AvgDt, d.max - @)]

\* the history of a RecvGInc call: the phase, the value drained for each
\* receiver, the cursor and the projection and layer state before the call
RecvHist(plus, d) ==
    [op |-> "RecvGInc", plus |-> plus, inc |-> d.inc, zi |-> Gidx.Zi,
     preG |-> GScale, preN |-> Neurons, preB |-> Gbuf]

\* Prjn.RecvGIncStats: drain, statistics, then pj.Gidx.Shift(1)
RecvGIncStats ==
    LET d == Drain
    IN  /\ Gbuf' = d.buf
        /\ Neurons' = d.nrn
        /\ panicked' = ~d.ok
        /\ GScale' = IF d.ok THEN StatsUpdate(GScale, d) ELSE GScale
        /\ Gidx' = IF d.ok THEN GidxShift(Gidx, 1) ELSE Gidx
        /\ last' = RecvHist(FALSE, d)

\* the plus-phase drain with the statistics of the minus phase
RecvGIncNoStatsUpd ==
    LET d == Drain
    IN  /\ Gbuf' = d.buf
        /\ Neurons' = d.nrn
        /\ panicked' = ~d.ok
        /\ GScale' = IF d.ok THEN StatsUpdate(GScale, d) ELSE GScale
        /\ Gidx' = IF d.ok THEN GidxShift(Gidx, 1) ELSE Gidx
        /\ last' = RecvHist(TRUE, d)

\* Prjn.RecvGIncNoStats: drain, then pj.Gidx.Shift(1)
RecvGIncNoStats ==
    LET d == Drain
    IN  /\ Gbuf' = d.buf
        /\ Neurons' = d.nrn
        /\ panicked' = ~d.ok
        /\ GScale' = GScale
        /\ Gidx' = IF d.ok THEN GidxShift(Gidx, 1) ELSE Gidx
        /\ last' = RecvHist(TRUE, d)

\* Prjn.RecvGInc(ltime): the no-stats drain in the plus phase, else the stats drain
RecvGInc(plusPhase) ==
    /\ ~panicked
    /\ cyc < MaxCycle
    /\ PlusPhase => plusPhase
    /\ IF plusPhase THEN RecvGIncNoStats ELSE RecvGIncStats
    /\ PlusPhase' = plusPhase
    /\ cyc' = cyc + 1
    /\ sendPos' = 0
    /\ UNCHANGED <<variant, Con, Typ, Com, Syns, Learn, file, nops, sched,
                   IsTarget,
                   SWt,
                   SWtMeans,
                   rpj,
                   pj2>>

\* a projection built with any delay, type, scale and weights; Gbuf all zero
Init ==
    /\ variant \in {"SWt", "Scale"}
    /\ Con \in {PatFull, PatUpper}
    /\ Typ \in {"Inhib", "Forward"}
    /\ \E d \in 0 .. MaxDelay, w \in InitWtVals :
          /\ GScale = GScaleInit(IF w = ONE THEN Half ELSE ONE)
          /\ InitCommon([Gain |-> 6, Off |-> ONE], w, d)

Spec ==
    Init /\ [][\/ \E si \in Senders : SendSpike(si)
               \/ \E plusPhase \in BOOLEAN : RecvGInc(plusPhase)]_vars

\* ------------------------------------------------- delay line: properties
\* the raw accumulator the projection's polarity selects
Raw(ri) == IF Typ = "Inhib" THEN Neurons[ri].GiRaw ELSE Neurons[ri].GeRaw

RECURSIVE SumSched(_, _)
SumSched(ri, c) == IF c <= 0 THEN 0 ELSE SumSched(ri, c - 1) + sched[ri][c - 1]

\* C1: delay correctness.  Conductance sent in cycle c with delay d is scheduled
\* (sched) for cycle c+d.  The RecvGInc of a cycle adds to each receiver's raw
\* accumulator exactly what is scheduled for that cycle, so the accumulator holds
\* the sum of what was scheduled for the cycles drained so far: a spike shows in
\* the drain of cycle c+d and in no other, for both drains.
C1_DelayCorrect ==
    /\ \A ri \in Recvs : Raw(ri) = SumSched(ri, cyc)
    /\ last.op = "RecvGInc" => \A ri \in Recvs : last.inc[ri] = sched[ri][cyc - 1]

\* C1 witness: delay 2, scale 1, Wt 0.5: the third drain delivers exactly 0.5
\* that a spike of cycle 0 sent, the first two delivered nothing.
C1_Witness ==
    /\ Com.Delay = 2 /\ GScale.Scale = ONE /\ cyc = 3 /\ last.op = "RecvGInc"
    /\ \E ri \in Recvs :
          /\ last.inc[ri] = Half /\ Raw(ri) = Half
          /\ sched[ri][0] = 0 /\ sched[ri][1] = 0 /\ sched[ri][2] = Half

\* C2: every RecvGInc leaves 0 in the slot it read, for every receiver, and
\* advances the cursor by one modulo delay+1; the slot SendSpike writes next is
\* then 0 for every receiver.
C2_DrainZeroes ==
    last.op = "RecvGInc" =>
        /\ Gidx.Zi = (last.zi + 1) % (Com.Delay + 1)
        /\ \A ri \in Recvs :
              /\ Gbuf[ri * (Com.Delay + 1) + last.zi] = 0
              /\ Gbuf[ri * (Com.Delay + 1) + SendSlot] = 0

\* C2 witness: a stats drain of an inhibitory projection that read a positive
\* value, with more than one slot per receiver.
C2_Witness ==
    /\ last.op = "RecvGInc" /\ ~last.plus /\ Typ = "Inhib" /\ Com.Delay > 0
    /\ \E ri \in Recvs : last.inc[ri] > 0

\* C29: conductance conservation.  From an all-zero Gbuf, after any
\* interleaving of SendSpike and RecvGInc and for every receiver, what
\* RecvGInc has added to the receiver's raw accumulator plus what its Gbuf
\* slots hold is the sum of GScale.Scale * Wt over every spike sent to that
\* receiver (sched, summed over all cycles); the accumulator of the other
\* polarity holds nothing.
C29_Conserved ==
    LET SumBuf(ri) ==
            LET RECURSIVE S(_)
                S(k) == IF k < 0 THEN 0 ELSE Gbuf[ri * (Com.Delay + 1) + k] + S(k - 1)
            IN  S(Com.Delay)
    IN  /\ ~panicked
        /\ \A ri \in Recvs :
              /\ Raw(ri) + SumBuf(ri) = SumSched(ri, MaxCycle + MaxDelay + 2)
              /\ Neurons[ri].GeRaw + Neurons[ri].GiRaw = Raw(ri)

\* C29 witness: a receiver that two senders have reached, part of it drained
\* into the accumulator and part still in the ring, next to a receiver that
\* was sent a different total.
C29_Witness ==
    /\ Com.Delay > 0 /\ cyc >= 2
    /\ \E ri \in Recvs :
          /\ Raw(ri) > 0
          /\ \E k \in 0 .. Com.Delay : Gbuf[ri * (Com.Delay + 1) + k] > 0
          /\ \E c \in DOMAIN sched[ri] : sched[ri][c] > MulFx(GScale.Scale, Syns[0].Wt)
          /\ \E rj \in Recvs : SumSched(rj, MaxCycle + MaxDelay + 2)
                                  # SumSched(ri, MaxCycle + MaxDelay + 2)

\* C16: a plus-phase RecvGInc changes no GScale field; in either phase it
\* drains the slot under the cursor of every receiver into the accumulator and
\* advances the cursor; a minus-phase call changes the statistics only when
\* some receiver drained a strictly positive value.
\* RawOf is the accumulator the projection's polarity selects, LastSlotOf the
\* slot of a receiver that the call read.
C16_PlusPhaseFrozen ==
    LET RawOf(n) == IF Typ = "Inhib" THEN n.GiRaw ELSE n.GeRaw
        LastSlotOf(ri) == ri * (Com.Delay + 1) + last.zi
    IN  last.op = "RecvGInc" =>
            /\ last.plus => GScale = last.preG
            /\ Gidx.Zi = (last.zi + 1) % (Com.Delay + 1)
            /\ Gbuf = [bi \in DOMAIN last.preB |->
                         IF \E ri \in Recvs : bi = LastSlotOf(ri)
                         THEN 0 ELSE last.preB[bi]]
            /\ \A ri \in Recvs :
                  /\ last.inc[ri] = last.preB[LastSlotOf(ri)]
                  /\ RawOf(Neurons[ri]) = RawOf(last.preN[ri]) + last.inc[ri]
            /\ (~last.plus /\ GScale # last.preG)
                  => \E ri \in Recvs : last.inc[ri] > 0

\* C16 witness: a plus-phase drain of a positive value, after statistics were
\* collected in the minus phase, left the statistics as they were.
C16_Witness ==
    /\ last.op = "RecvGInc" /\ last.plus
    /\ \E ri \in Recvs : last.inc[ri] > 0 /\ last.inc[ri] # GScale.Max
    /\ GScale.Max > 0
    /\ GScale = last.preG

\* C17: RecvGInc adds the drained value of each receiver to GiRaw for an
\* inhibitory projection and to GeRaw for any other, and changes nothing else
\* of the neuron.
C17_Polarity ==
    last.op = "RecvGInc" =>
        \A ri \in Recvs :
            Neurons[ri] =
                IF Typ = "Inhib"
                THEN [last.preN[ri] EXCEPT !.GiRaw = @ + last.inc[ri]]
                ELSE [last.preN[ri] EXCEPT !.GeRaw = @ + last.inc[ri]]

\* C17 witness: an inhibitory projection drained a positive value into an
\* accumulator that already held one.
C17_Witness ==
    /\ last.op = "RecvGInc" /\ Typ = "Inhib"
    /\ \E ri \in Recvs :
          /\ last.inc[ri] > 0
          /\ last.preN[ri].GiRaw > 0
          /\ Neurons[ri].GiRaw = last.preN[ri].GiRaw + last.inc[ri]
          /\ Neurons[ri].GeRaw = 0

\* ------------------------------------------------------ parameter updates
\* Prjn.InitWts (Scale variant): InitWtsSyn on every synapse with a fresh draw
\* wts[i] of WtInit.Gen, then InitGbuf
InitWts(wts) ==
    /\ ~panicked
    /\ variant = "Scale"
    /\ nops < MaxParamOps
    /\ Syns' = [i \in SynIds |-> InitWtsSyn(Learn.WtSig, Syns[i].Scale, wts[i])]
    /\ Gbuf' = InitGbuf(Gbuf)
    /\ nops' = nops + 1
    /\ sched' = ZeroSched
    /\ last' = [op |-> "InitWts"]
    /\ UNCHANGED <<variant, Con, Typ, Com, Gidx, GScale, Learn, Neurons, file, panicked,
                   cyc, sendPos, PlusPhase,
                   IsTarget,
                   SWt,
                   SWtMeans,
                   rpj,
                   pj2>>

\* a parameter sheet sets Com.Delay to delay, then Prjn.UpdateParams:
\* Com.Update, PrjnScale / WtScale.Update, Learn.Update, LrateInit = Lrate
UpdateParams(delay) ==
    /\ ~panicked
    /\ nops < MaxParamOps
    /\ Com' = [Com EXCEPT !.Delay = delay]
    /\ Learn' = [Learn EXCEPT !.LrateInit = Learn.Lrate]
    /\ nops' = nops + 1
    /\ last' = [op |-> "UpdateParams", delay |-> delay]
    /\ UNCHANGED <<variant, Con, Typ, Gidx, Gbuf, GScale, Syns, Neurons, file, panicked,
                   cyc, sendPos, PlusPhase, sched,
                   IsTarget,
                   SWt,
                   SWtMeans,
                   rpj,
                   pj2>>

\* a learning-rate schedule that compounds: the new rate from the current one
LrateMultCumulative(mult) ==
    /\ ~panicked
    /\ Learn' = [Learn EXCEPT !.Lrate = MulFx(Learn.Lrate, mult)]
    /\ last' = [op |-> "LrateMult", mult |-> mult]
    /\ UNCHANGED <<variant, Con, Typ, Com, Gidx, Gbuf, GScale, Syns, Neurons, file,
                   panicked, cyc, sendPos, PlusPhase, nops, sched, IsTarget, SWt,
                   SWtMeans, rpj, pj2>>

\* Prjn.LrateMult(mult): pj.Learn.Lrate = pj.Learn.LrateInit * mult
LrateMult(mult) ==
    /\ ~panicked
    /\ Learn' = [Learn EXCEPT !.Lrate = MulFx(Learn.LrateInit, mult)]
    /\ last' = [op |-> "LrateMult", mult |-> mult]
    /\ UNCHANGED <<variant, Con, Typ, Com, Gidx, Gbuf, GScale, Syns, Neurons, file,
                   panicked, cyc, sendPos, PlusPhase, nops, sched, IsTarget, SWt,
                   SWtMeans, rpj, pj2>>

InitParams ==
    /\ Init
    /\ Con = PatUpper
    /\ Typ = "Forward"
    /\ GScale.Scale = ONE

SpecParams ==
    InitParams /\ [][\/ \E si \in Senders : SendSpike(si)
                     \/ \E plusPhase \in BOOLEAN : cyc < ParamCycles /\ RecvGInc(plusPhase)
                     \/ \E wts \in SpreadOver(InitWtVals) : InitWts(wts)
                     \/ \E delay \in 0 .. MaxDelay : UpdateParams(delay)]_vars

\* a learning-rate schedule, with parameter updates in between
SpecLrate ==
    InitParams /\ [][\/ \E mult \in {0, Half, ONE, 2 * ONE} : LrateMult(mult)
                     \/ \E wts \in SpreadOver(InitWtVals) : InitWts(wts)
                     \/ \E delay \in 0 .. MaxDelay : UpdateParams(delay)]_vars

\* C28: LrateMult(mult) sets Lrate to LrateInit * mult and leaves LrateInit
\* as it is, so after any run of LrateMult calls the rate is the initial rate
\* times the last factor; LrateInit changes in no step but UpdateParams, which
\* sets it to the rate of that moment and leaves the rate as it is.
C28_LrateMultRelative ==
    [][/\ last'.op = "LrateMult" =>
             /\ Learn'.Lrate = MulFx(Learn.LrateInit, last'.mult)
             /\ Learn'.LrateInit = Learn.LrateInit
       /\ last'.op = "UpdateParams" =>
             /\ Learn'.LrateInit = Learn.Lrate
             /\ Learn'.Lrate = Learn.Lrate
       /\ Learn'.LrateInit # Learn.LrateInit => last'.op = "UpdateParams"]_vars

\* C28 witness: a second factor applied after a parameter update took the
\* rate of a first factor as the initial rate.
C28_Witness ==
    /\ last.op = "LrateMult"
    /\ last.mult = Half
    /\ Learn.LrateInit = MulFx(LrateDef, Half)
    /\ Learn.Lrate = MulFx(MulFx(LrateDef, Half), Half)

\* C3: ring-buffer index safety.  After Build and any sequence of SendSpike,
\* RecvGInc, InitWts and parameter updates, Gidx.Len = Com.Delay + 1 and
\* len(Gbuf) = receiverCount * Gidx.Len, so no Gbuf index is out of range and
\* every index SendSpike writes lies in its receiver's own row of the ring.
C3_IndexSafe ==
    /\ Gidx.Len = Com.Delay + 1
    /\ Cardinality(DOMAIN Gbuf) = NRecv * Gidx.Len
    /\ ~panicked
    /\ \A ri \in Recvs :
          LET bi == ri * (Com.Delay + 1) + SendSlot
          IN  bi \in DOMAIN Gbuf /\ bi \div Gidx.Len = ri

\* ------------------------------------------------------ synapse accessors
\* SynapseVars of the variant: the names of the per-synapse variables
SynapseVars ==
    IF variant = "SWt" THEN <<"Wt", "LWt", "SWt", "DWt">> ELSE <<"Wt", "LWt", "DWt", "Scale">>

\* SynapseVarByName / Prjn.SynVarIdx: index of the name, or -1 with an error
SynVarIdx(varNm) ==
    IF \E k \in 1 .. Len(SynapseVars) : SynapseVars[k] = varNm
    THEN (CHOOSE k \in 1 .. Len(SynapseVars) : SynapseVars[k] = varNm) - 1
    ELSE -1

\* Prjn.SynVarNum
SynVarNum == Len(SynapseVars)

\* Synapse.VarByIndex
VarByIndex(sy, vidx) == sy[SynapseVars[vidx + 1]]

\* Synapse.SetVarByIndex
SetVarByIndex(sy, vidx, val) == [sy EXCEPT ![SynapseVars[vidx + 1]] = val]

SynIdxNoCheck(sidx, ridx, ci) == IF ci >= SConN(sidx) THEN -1 ELSE SConIdxSt(sidx) + ci

\* Prjn.SynIdx, the scan of the sender's connections from ci on
RECURSIVE SynIdxFrom(_, _, _)
SynIdxFrom(sidx, ridx, ci) ==
    IF ci >= SConN(sidx) THEN -1
    ELSE IF SConIdx(SConIdxSt(sidx) + ci) # ridx THEN SynIdxFrom(sidx, ridx, ci + 1)
    ELSE SConIdxSt(sidx) + ci

\* Prjn.SynIdx
SynIdx(sidx, ridx) == SynIdxFrom(sidx, ridx, 0)

\* Prjn.SynVal1D
SynVal1D(varIdx, synIdx) ==
    IF synIdx < 0 \/ synIdx >= NSyn THEN NaN
    ELSE IF varIdx < 0 \/ varIdx >= SynVarNum THEN NaN
    ELSE Num(VarByIndex(Syns[synIdx], varIdx))

\* Prjn.SynVal: the value returned
SynValRet(varNm, sidx, ridx) ==
    IF SynVarIdx(varNm) < 0 THEN NaN
    ELSE SynVal1D(SynVarIdx(varNm), SynIdx(sidx, ridx))

LWtFmWtNoScale(ws, sy) == [sy EXCEPT !.LWt = LinFmSigWt(ws, sy.Wt)]

\* LearnSynParams.LWtFmWt: syn.LWt = LinFmSigWt(syn.Wt / syn.Scale)
LWtFmWt(ws, sy) == [sy EXCEPT !.LWt = LinFmSigWt(ws, DivFx(sy.Wt, sy.Scale))]

\* Prjn.SetSynVal on the synapses syns: [syns, err]; an unknown name returns the
\* error of SynVarIdx, a missing synapse returns the same err variable (nil)
SetSynValOn(syns, varNm, sidx, ridx, val) ==
    LET vidx == SynVarIdx(varNm)
        synIdx == SynIdx(sidx, ridx)
    IN  IF vidx < 0 THEN [syns |-> syns, err |-> "unknown variable"]
        ELSE IF synIdx < 0 \/ synIdx >= NSyn THEN [syns |-> syns, err |-> "nil"]
        ELSE LET sy == SetVarByIndex(syns[synIdx], vidx, val)
                 sy2 == IF varNm # "Wt" THEN sy
                        ELSE IF variant = "SWt"
                             THEN [sy EXCEPT !.SWt = sy.Wt, !.LWt = Half]
                             ELSE LWtFmWt(Learn.WtSig, sy)
             IN  [syns |-> [syns EXCEPT ![synIdx] = sy2], err |-> "nil"]

ScaleVals == {Half, ONE}

\* the fields of the projection and of the receiving layer
PrjnState ==
    [Com |-> Com, Gidx |-> Gidx, Gbuf |-> Gbuf, GScale |-> GScale, Syns |-> Syns,
     Learn |-> Learn, Neurons |-> Neurons]

\* Prjn.SynVal(varNm, sidx, ridx)
SynVal(varNm, sidx, ridx) ==
    /\ ~panicked
    /\ nops < MaxOps
    /\ nops' = nops + 1
    /\ last' = [op |-> "SynVal", varNm |-> varNm, sidx |-> sidx, ridx |-> ridx,
                ret |-> SynValRet(varNm, sidx, ridx), pre |-> PrjnState]
    /\ UNCHANGED <<variant, Con, Typ, Com, Gidx, Gbuf, GScale, Syns, Learn, Neurons, file,
                   panicked, cyc, sendPos, PlusPhase, sched,
                   IsTarget,
                   SWt,
                   SWtMeans,
                   rpj,
                   pj2>>

\* Prjn.SetSynVal(varNm, sidx, ridx, val); Scale is set to positive factors only
SetSynVal(varNm, sidx, ridx, val) ==
    /\ ~panicked
    /\ nops < MaxOps
    /\ LET res == SetSynValOn(Syns, varNm, sidx, ridx, val)
       IN  /\ Syns' = res.syns
           /\ last' = [op |-> "SetSynVal", varNm |-> varNm, sidx |-> sidx, ridx |-> ridx,
                       val |-> val, ret |-> res.err, pre |-> Syns]
    /\ nops' = nops + 1
    /\ UNCHANGED <<variant, Con, Typ, Com, Gidx, Gbuf, GScale, Learn, Neurons, file,
                   panicked, cyc, sendPos, PlusPhase, sched,
                   IsTarget,
                   SWt,
                   SWtMeans,
                   rpj,
                   pj2>>

\* the synapses after SetScalesFunc (Scale scale) and a draw wts of the weights
SynsDrawn(ws, scale, wts) ==
    [i \in SynIds |->
        IF variant = "SWt" THEN SynSetWt(wts[i]) ELSE InitWtsSyn(ws, scale, wts[i])]

\* a projection built and initialized with any draw of the weights, before any
\* accessor call
InitSyn ==
    /\ variant \in {"SWt", "Scale"}
    /\ Con = PatUpper
    /\ Typ = "Forward"
    /\ GScale = GScaleInit(ONE)
    /\ Com = [Delay |-> 0]
    /\ Gidx = BuildGidx(0)
    /\ Gbuf = BuildGbuf(0)
    /\ \E ws \in {[Gain |-> 6, Off |-> ONE], [Gain |-> 1, Off |-> ONE]} :
          /\ variant = "SWt" => ws.Gain = 6
          /\ Learn = [Learn |-> TRUE, Lrate |-> LrateDef, LrateInit |-> LrateDef,
                      WtSig |-> ws, XCal |-> XCal]
          /\ \E wts \in SpreadOver({Half, Half + 3}), scale \in ScaleVals :
                /\ variant = "SWt" => scale = ONE
                /\ Syns = SynsDrawn(ws, scale, wts)
    /\ Neurons = ZeroNeurons
    /\ file = NoFile
    /\ panicked = FALSE
    /\ cyc = 0
    /\ sendPos = 0
    /\ PlusPhase = FALSE
    /\ nops = 0
    /\ sched = ZeroSched
    /\ last = NoOp
    /\ pj2 = BuildPrjn("Forward", 0)
    /\ rpj = NoRpj
    /\ SWtMeans = [ri \in Recvs |-> Half]
    /\ SWt = SWtDefaults
    /\ IsTarget = FALSE

SpecSyn ==
    InitSyn /\ [][\/ \E varNm \in {"Wt", "DWt", "Scale", "Bogus"}, sidx \in Senders, ridx \in 0 .. NRecv :
                        SynVal(varNm, sidx, ridx)
                  \/ \E varNm \in {"Wt", "DWt", "Scale", "Bogus"}, sidx \in Senders,
                        ridx \in 0 .. NRecv, val \in {Half + 3, ONE} :
                        SetSynVal(varNm, sidx, ridx, val)]_vars

\* ------------------------------------------ synapse accessors: properties
\* the call that led to this state named a variable of the variant
LastKnownVar == \E k \in 1 .. Len(SynapseVars) : SynapseVars[k] = last.varNm

\* the call that led to this state named a connected pair
LastConnected == <<last.sidx, last.ridx>> \in Con

\* the slot of the synapse the call named, from the layout of the sender-major
\* arrays: the sender's start plus the connected receivers below the receiver
LastSlot == SConIdxSt(last.sidx) + CountBelow(last.sidx, last.ridx)

\* C4: SetSynVal with an unknown variable name or an unconnected pair returns
\* a non-nil error and changes no field of any synapse.
C4_SetSynValFails ==
    (last.op = "SetSynVal" /\ (~LastKnownVar \/ ~LastConnected)) =>
        /\ last.ret # "nil"
        /\ Syns = last.pre

\* C6: SynVal returns NaN for an unknown name or an unconnected pair, the
\* stored field of the synapse otherwise, and leaves the projection as it was.
C6_SynValTotal ==
    last.op = "SynVal" =>
        /\ (~LastKnownVar \/ ~LastConnected) => last.ret = NaN
        /\ (LastKnownVar /\ LastConnected) => last.ret = Num(Syns[LastSlot][last.varNm])
        /\ PrjnState = last.pre
        /\ ~panicked

C6_Witness ==
    /\ last.op = "SynVal"
    /\ LastKnownVar
    /\ ~LastConnected
    /\ last.ret = NaN

\* C8: a successful SetSynVal("Wt", s, r, v) stores Wt = v and re-derives the
\* weight fields (SWt = v and LWt = 0.5 structural; LWt = LinFmSigWt(v / Scale)
\* in the Scale variant); with another name only that field changes; no other
\* synapse changes.
C8_SetWtRederives ==
    (last.op = "SetSynVal" /\ LastKnownVar /\ LastConnected) =>
        LET old == last.pre[LastSlot]
            new == Syns[LastSlot]
        IN  /\ last.ret = "nil"
            /\ \A i \in SynIds : i # LastSlot => Syns[i] = last.pre[i]
            /\ new[last.varNm] = last.val
            /\ (last.varNm = "Wt" /\ variant = "SWt") =>
                   new = [old EXCEPT !.Wt = last.val, !.SWt = last.val, !.LWt = Half]
            /\ (last.varNm = "Wt" /\ variant = "Scale") =>
                   new = [old EXCEPT !.Wt = last.val,
                                     !.LWt = LinFmSigWt(Learn.WtSig, DivFx(last.val, old.Scale))]
            /\ last.varNm # "Wt" => new = [old EXCEPT ![last.varNm] = last.val]

C8_Witness ==
    /\ last.op = "SetSynVal"
    /\ last.varNm = "Wt"
    /\ LastConnected
    /\ variant = "Scale"
    /\ last.pre[LastSlot].Scale # ONE
    /\ Syns[LastSlot].Wt = last.val
    /\ Syns[LastSlot].LWt # last.pre[LastSlot].LWt

\* ------------------------------------------------------------ weights file
\* number of binary digits of n
RECURSIVE BitLen(_)
BitLen(n) == IF n <= 0 THEN 0 ELSE 1 + BitLen(n \div 2)

RECURSIVE Pow2(_)
Pow2(k) == IF k <= 0 THEN 1 ELSE 2 * Pow2(k - 1)

\* x / 2^sh rounded to the nearest whole number, ties to even
RoundShift(x, sh) ==
    LET q == x \div Pow2(sh)
        r == x % Pow2(sh)
        h == Pow2(sh) \div 2
    IN  IF sh = 0 THEN x
        ELSE IF r > h \/ (r = h /\ q % 2 = 1) THEN q + 1 ELSE q

\* strconv.FormatFloat(x, 'g', prec, 32): the text of x with prec significant
\* digits; a text is its digits mant and its exponent exp
FormatFloat(x, prec) ==
    LET sh == IF BitLen(Abs(x)) > prec THEN BitLen(Abs(x)) - prec ELSE 0
    IN  [neg |-> x < 0, mant |-> RoundShift(Abs(x), sh), exp |-> sh]

\* fmt.Sprintf("%g", x): the shortest text that reads back as x
FormatG(x) == [neg |-> x < 0, mant |-> Abs(x), exp |-> 0]

\* strconv.ParseFloat(t, 32)
ParseFloat(t) == (IF t.neg THEN -1 ELSE 1) * t.mant * Pow2(t.exp)

WriteWtSlot(st, ci) == FormatFloat(Syns[st + ci].Wt, WtsPrec)

\* WriteWtsJSON: the text of the weight at receiver-view position st + ci
WriteWt(st, ci) == FormatFloat(Syns[RSynIdx(st + ci)].Wt, WtsPrec)

\* WriteWtsJSON: the entry of receiver ri
WriteRecv(ri) ==
    LET nc == RConN(ri)
        st == RConIdxSt(ri)
    IN  [Ri |-> ri, N |-> nc,
         Si |-> [ci \in 0 .. (nc - 1) |-> RConIdx(st + ci)],
         Wt |-> [ci \in 0 .. (nc - 1) |-> WriteWt(st, ci)]]

\* Prjn.WriteWtsJSON
WriteWtsJSON ==
    /\ ~panicked
    /\ nops < MaxFileOps
    /\ file' = [written |-> TRUE,
                MetaData |-> [k \in {"GScale"} |-> FormatG(GScale.Scale)],
                Rs |-> [ri \in Recvs |-> WriteRecv(ri)]]
    /\ nops' = nops + 1
    /\ last' = [op |-> "WriteWtsJSON"]
    /\ UNCHANGED <<variant, Con, Typ, Com, Gidx, Gbuf, GScale, Syns, Learn, Neurons,
                   panicked, cyc, sendPos, PlusPhase, sched,
                   IsTarget,
                   SWt,
                   SWtMeans,
                   rpj,
                   pj2>>

\* the file a fully connected projection between the same layers writes, with
\* every weight w and GScale g
FullFile(w, g) ==
    [written |-> TRUE,
     MetaData |-> [k \in {"GScale"} |-> FormatG(g)],
     Rs |-> [ri \in Recvs |->
               [Ri |-> ri, N |-> NSend,
                Si |-> [ci \in Senders |-> ci],
                Wt |-> [ci \in Senders |-> FormatFloat(w, WtsPrec)]]]]

\* weights.PrjnReadJSON: the decoded file, weights as float32, MetaData as text
PrjnReadJSON(f) ==
    [MetaData |-> f.MetaData,
     Rs |-> [i \in DOMAIN f.Rs |->
               [Ri |-> f.Rs[i].Ri, Si |-> f.Rs[i].Si,
                Wt |-> [k \in DOMAIN f.Rs[i].Wt |-> ParseFloat(f.Rs[i].Wt[k])]]]]

\* Prjn.SetWts: GScale.Scale from MetaData["GScale"] when the key is there
SetWtsGScale(gs, pw) ==
    IF "GScale" \in DOMAIN pw.MetaData
    THEN [gs EXCEPT !.Scale = ParseFloat(pw.MetaData["GScale"])]
    ELSE gs

\* Prjn.SetWts: the loop over pw.Rs and pr.Si from entry (i, k) on;
\* acc is [syns, err], err the latest non-nil error of SetSynVal
RECURSIVE SetWtsLoop(_, _, _, _)
SetWtsLoop(acc, pw, i, k) ==
    IF i >= Cardinality(DOMAIN pw.Rs) THEN acc
    ELSE IF k >= Cardinality(DOMAIN pw.Rs[i].Si) THEN SetWtsLoop(acc, pw, i + 1, 0)
    ELSE LET pr == pw.Rs[i]
             res == SetSynValOn(acc.syns, "Wt", pr.Si[k], pr.Ri, pr.Wt[k])
         IN  SetWtsLoop([syns |-> res.syns,
                         err |-> IF res.err # "nil" THEN res.err ELSE acc.err],
                        pw, i, k + 1)

\* Prjn.SetWts(pw)
SetWts(pw) ==
    /\ ~panicked
    /\ nops < MaxFileOps
    /\ GScale' = SetWtsGScale(GScale, pw)
    /\ LET res == SetWtsLoop([syns |-> Syns, err |-> "nil"], pw, 0, 0)
       IN  /\ Syns' = res.syns
           /\ last' = [op |-> "SetWts", pw |-> pw, ret |-> res.err, pre |-> Syns,
                       preG |-> GScale.Scale]
    /\ nops' = nops + 1
    /\ UNCHANGED <<variant, Con, Typ, Com, Gidx, Gbuf, Learn, Neurons, file, panicked,
                   cyc, sendPos, PlusPhase, sched,
                   IsTarget,
                   SWt,
                   SWtMeans,
                   rpj,
                   pj2>>

GScaleVals == {Half, ONE}

\* an identical projection freshly built and initialized (Build, Defaults, the
\* network's GScale g, SetWtsFunc / InitWts with weight w)
InitFresh(w, g) ==
    /\ ~panicked
    /\ nops < MaxFileOps
    /\ Syns' = [i \in SynIds |->
                  IF variant = "SWt" THEN SynSetWt(w)
                  ELSE InitWtsSyn(Learn.WtSig, Syns[i].Scale, w)]
    /\ GScale' = GScaleInit(g)
    /\ Gidx' = BuildGidx(Com.Delay)
    /\ Gbuf' = BuildGbuf(Com.Delay)
    /\ nops' = nops + 1
    /\ last' = [op |-> "InitFresh"]
    /\ UNCHANGED <<variant, Con, Typ, Com, Learn, Neurons, file, panicked, cyc, sendPos,
                   PlusPhase, sched,
                   IsTarget,
                   SWt,
                   SWtMeans,
                   rpj,
                   pj2>>

\* a projection with missing pairs, built and initialized with any draw of the
\* weights, and no file written yet
InitFile ==
    /\ variant \in {"SWt", "Scale"}
    /\ Con = PatSkipFirst
    /\ Typ = "Forward"
    /\ \E g \in GScaleVals : GScale = GScaleInit(g)
    /\ Com = [Delay |-> 0]
    /\ Gidx = BuildGidx(0)
    /\ Gbuf = BuildGbuf(0)
    /\ Learn = [Learn |-> TRUE, Lrate |-> LrateDef, LrateInit |-> LrateDef,
                WtSig |-> [Gain |-> 6, Off |-> ONE],
                XCal |-> XCal]
    /\ \E wts \in SpreadOver({Half, Half + 3}), scale \in ScaleVals :
          /\ variant = "SWt" => scale = ONE
          /\ Syns = SynsDrawn(Learn.WtSig, scale, wts)
    /\ Neurons = ZeroNeurons
    /\ file = NoFile
    /\ panicked = FALSE
    /\ cyc = 0
    /\ sendPos = 0
    /\ PlusPhase = FALSE
    /\ nops = 0
    /\ sched = ZeroSched
    /\ last = NoOp
    /\ pj2 = BuildPrjn("Forward", 0)
    /\ rpj = NoRpj
    /\ SWtMeans = [ri \in Recvs |-> Half]
    /\ SWt = SWtDefaults
    /\ IsTarget = FALSE

SpecFile ==
    InitFile /\ [][\/ WriteWtsJSON
                   \/ \E w \in {Half, ONE}, g \in GScaleVals : InitFresh(w, g)
                   \/ \E pw \in (IF file.written
                                    THEN {PrjnReadJSON(file),
                                          [PrjnReadJSON(file) EXCEPT !.MetaData = <<>>]}
                                    ELSE {}) \cup {PrjnReadJSON(FullFile(ONE, ONE))} :
                         SetWts(pw)]_vars

\* ------------------------------------------------ weights file: properties
\* the sender-major slot of the synapse si -> ri
SlotOf(si, ri) == SConIdxSt(si) + CountBelow(si, ri)

\* the entries (i, k) of the decoded file the latest SetWts was called with
LastEntries == {e \in (DOMAIN last.pw.Rs) \X Senders : e[2] \in DOMAIN last.pw.Rs[e[1]].Si}

\* the entry names a connected pair
EntryConnected(e) == <<last.pw.Rs[e[1]].Si[e[2]], last.pw.Rs[e[1]].Ri>> \in Con

\* C5: SetWts applies every entry whose pair is connected, whatever precedes
\* it, and returns a non-nil error exactly when some entry names a pair that
\* is not connected.
C5_SetWtsReports ==
    last.op = "SetWts" =>
        /\ \A e \in LastEntries :
              EntryConnected(e) =>
                  Syns[SlotOf(last.pw.Rs[e[1]].Si[e[2]], last.pw.Rs[e[1]].Ri)].Wt
                      = last.pw.Rs[e[1]].Wt[e[2]]
        /\ (last.ret # "nil") <=> (\E e \in LastEntries : ~EntryConnected(e))

\* the positions (ri, k) of the written file
FilePos == {q \in Recvs \X (0 .. (NSend - 1)) : q[2] \in DOMAIN file.Rs[q[1]].Si}

\* C7: the written file lists every synapse exactly once (receivers ascending,
\* N = RConN[ri], Si[k] and Wt[k] from the same position); SetWts of the
\* written data makes every Wt the written Wt and GScale.Scale the written
\* GScale; without a GScale key GScale.Scale stays as it was.
C7_RoundTrip ==
    /\ file.written =>
          /\ DOMAIN file.Rs = Recvs
          /\ \A ri \in Recvs :
                /\ file.Rs[ri].Ri = ri
                /\ file.Rs[ri].N = RConN(ri)
                /\ DOMAIN file.Rs[ri].Si = 0 .. (RConN(ri) - 1)
                /\ DOMAIN file.Rs[ri].Wt = 0 .. (RConN(ri) - 1)
          /\ {<<file.Rs[q[1]].Si[q[2]], q[1]>> : q \in FilePos} = Con
          /\ Cardinality(FilePos) = NSyn
    /\ last.op = "WriteWtsJSON" =>
          /\ ParseFloat(file.MetaData["GScale"]) = GScale.Scale
          /\ \A q \in FilePos :
                file.Rs[q[1]].Wt[q[2]]
                    = FormatFloat(Syns[SlotOf(file.Rs[q[1]].Si[q[2]], q[1])].Wt, WtsPrec)
    /\ (last.op = "SetWts" /\ file.written /\ last.pw.Rs = PrjnReadJSON(file).Rs) =>
          \A q \in FilePos :
              Syns[SlotOf(file.Rs[q[1]].Si[q[2]], q[1])].Wt = ParseFloat(file.Rs[q[1]].Wt[q[2]])
    /\ (last.op = "SetWts" /\ file.written /\ last.pw = PrjnReadJSON(file)) =>
          GScale.Scale = ParseFloat(file.MetaData["GScale"])
    /\ (last.op = "SetWts" /\ ~("GScale" \in DOMAIN last.pw.MetaData)) =>
          GScale.Scale = last.preG

C7_Witness ==
    /\ last.op = "SetWts"
    /\ file.written
    /\ last.pw = PrjnReadJSON(file)
    /\ Syns # last.pre
    /\ GScale.Scale # last.preG
    /\ \A i \in SynIds : Syns[i].Wt # last.pre[i].Wt

\* ----------------------------------------------------------------- learning
NoLearnNever == FALSE

\* !pj.Learn.Learn: the test that opens DWt, DWtSubMean, WtFmDWt, AdaptGScale
\* and SynScale
NoLearn == ~Learn.Learn

ClampLWtNone(lwt) == lwt

\* LearnSynParams.WtFmDWt: the clamp of the linear weight to [0,1]
ClampLWt(lwt) == IF lwt < 0 THEN 0 ELSE IF lwt > ONE THEN ONE ELSE lwt

\* the commit of a weight change that leaves a failed weight at zero
WtFmDWtSynNoRestore(ws, wbInc, wbDec, sy) ==
    IF sy.DWt = 0
    THEN sy
    ELSE LET dwt == IF sy.DWt > 0
                    THEN MulFx(sy.DWt, MulFx(wbInc, ONE - sy.LWt))
                    ELSE MulFx(sy.DWt, MulFx(wbDec, sy.LWt))
             lwt == ClampLWt(sy.LWt + dwt)
         IN  [sy EXCEPT !.LWt = lwt, !.Wt = MulFx(sy.Scale, SigFmLinWt(ws, lwt)),
                        !.DWt = 0]

\* the commit of a weight change that leaves the applied change pending
WtFmDWtSynKeep(ws, wbInc, wbDec, sy) ==
    IF sy.DWt = 0
    THEN IF sy.Wt = 0
         THEN [sy EXCEPT !.Wt = MulFx(sy.Scale, SigFmLinWt(ws, sy.LWt))]
         ELSE sy
    ELSE LET dwt == IF sy.DWt > 0
                    THEN MulFx(sy.DWt, MulFx(wbInc, ONE - sy.LWt))
                    ELSE MulFx(sy.DWt, MulFx(wbDec, sy.LWt))
             lwt == ClampLWt(sy.LWt + dwt)
         IN  [sy EXCEPT !.LWt = lwt, !.Wt = MulFx(sy.Scale, SigFmLinWt(ws, lwt))]

\* LearnSynParams.WtFmDWt(wbInc, wbDec, &sy.DWt, &sy.Wt, &sy.LWt, sy.Scale)
WtFmDWtSyn(ws, wbInc, wbDec, sy) ==
    IF sy.DWt = 0
    THEN IF sy.Wt = 0
         THEN [sy EXCEPT !.Wt = MulFx(sy.Scale, SigFmLinWt(ws, sy.LWt))]
         ELSE sy
    ELSE LET dwt == IF sy.DWt > 0
                    THEN MulFx(sy.DWt, MulFx(wbInc, ONE - sy.LWt))
                    ELSE MulFx(sy.DWt, MulFx(wbDec, sy.LWt))
             lwt == ClampLWt(sy.LWt + dwt)
         IN  [sy EXCEPT !.LWt = lwt, !.Wt = MulFx(sy.Scale, SigFmLinWt(ws, lwt)),
                        !.DWt = 0]

\* SynComParams.Fail: the synapses in fails do not transmit, their Wt is 0
ComFail(sy, failed) == IF failed THEN [sy EXCEPT !.Wt = 0] ELSE sy

\* Prjn.WtFmDWt (Scale variant), with the weight-balance factors of the
\* receiving layer and the synapses fails that Com.Fail turns off
WtFmDWt(wbInc, wbDec, fails) ==
    /\ ~panicked
    /\ variant = "Scale"
    /\ nops < MaxOps
    /\ Syns' = IF NoLearn THEN Syns
               ELSE [i \in SynIds |->
                       ComFail(WtFmDWtSyn(Learn.WtSig, wbInc, wbDec, Syns[i]), i \in fails)]
    /\ nops' = nops + 1
    /\ last' = [op |-> "WtFmDWt", wbInc |-> wbInc, wbDec |-> wbDec, fails |-> fails,
                pre |-> Syns, preG |-> GScale]
    /\ UNCHANGED <<variant, Con, Typ, Com, Gidx, Gbuf, GScale, Learn, Neurons, file,
                   panicked, cyc, sendPos, PlusPhase, sched,
                   IsTarget,
                   SWt,
                   SWtMeans,
                   rpj,
                   pj2>>

\* WtScale.ScaleLrate and Act.GTarg.GeMax * GScale.Rel of the receiving layer
ScaleLrate == Half
GTarg == ONE

\* Prjn.AdaptGScale without the floor
AdaptGScaleNoFloor(gs, adapt) ==
    IF NoLearn \/ ~adapt THEN gs
    ELSE LET sc == gs.Scale + MulFx(MulFx(ScaleLrate, gs.Orig), GTarg - gs.AvgMax)
         IN  [gs EXCEPT !.Targ = GTarg, !.Scale = sc]

\* Prjn.AdaptGScale
AdaptGScale(gs, adapt) ==
    IF NoLearn \/ ~adapt THEN gs
    ELSE LET sc == gs.Scale + MulFx(MulFx(ScaleLrate, gs.Orig), GTarg - gs.AvgMax)
             min == MulFx(ONE \div 5, gs.Orig)
         IN  [gs EXCEPT !.Targ = GTarg, !.Scale = IF sc < min THEN min ELSE sc]

\* Prjn.SynScale on the synapse sy of a receiver with AvgDif adif
SynScaleSyn(ws, lr, adif, sy) ==
    LET lwt == sy.LWt - MulFx(MulFx(lr, adif), sy.LWt)
    IN  [sy EXCEPT !.LWt = lwt, !.Wt = MulFx(sy.Scale, SigFmLinWt(ws, lwt))]

\* Prjn.SynScale: every synapse of every receiver, by the receiver's AvgDif
SynScale(syns, lr, adif) ==
    IF NoLearn \/ IsTarget THEN syns
    ELSE [i \in SynIds |-> SynScaleSyn(Learn.WtSig, lr, adif[SConIdx(i)], syns[i])]

\* Prjn.SlowAdapt (Scale variant): AdaptGScale, then SynScale; adapt is
\* WtScale.Adapt, lr is Learn.SynScale.Rate and adif the AvgDif of the receivers
SlowAdapt(adapt, lr, adif) ==
    /\ ~panicked
    /\ variant = "Scale"
    /\ nops < MaxOps
    /\ GScale' = AdaptGScale(GScale, adapt)
    /\ Syns' = SynScale(Syns, lr, adif)
    /\ nops' = nops + 1
    /\ last' = [op |-> "SlowAdapt", adapt |-> adapt, lr |-> lr, adif |-> adif,
                pre |-> Syns, preG |-> GScale]
    /\ UNCHANGED <<variant, Con, Typ, Com, Gidx, Gbuf, Learn, Neurons, file, panicked,
                   cyc, sendPos, PlusPhase, sched,
                   IsTarget,
                   SWt,
                   SWtMeans,
                   rpj,
                   pj2>>

\* the factor of the reversed region without its minus sign
XCalUpdateNoSign(xc) ==
    [xc EXCEPT !.DRevRatio = IF xc.DRev > 0 THEN DivFx(ONE - xc.DRev, xc.DRev) ELSE ONE]

\* XCalParams.Update: DRevRatio = -(1 - DRev) / DRev, or -1 when DRev is 0
XCalUpdate(xc) ==
    [xc EXCEPT !.DRevRatio = IF xc.DRev > 0 THEN 0 - DivFx(ONE - xc.DRev, xc.DRev)
                             ELSE 0 - ONE]

\* XCalParams.DWt of the parameters xc: the "check mark" function
XCalDWt(xc, srval, thrP) ==
    IF srval < xc.DThr THEN 0
    ELSE IF srval > MulFx(thrP, xc.DRev) THEN srval - thrP
    ELSE MulFx(srval, xc.DRevRatio)

\* LearnSynParams.CHLdWt: the error-driven component
CHLdWt(suAvgSLrn, suAvgM, ruAvgSLrn, ruAvgM) ==
    XCalDWt(Learn.XCal, MulFx(suAvgSLrn, ruAvgSLrn), MulFx(suAvgM, ruAvgM))

\* a weight change that replaces the pending change
DWtSynSet(sn, rn, sy) ==
    LET err == CHLdWt(sn.AvgSLrn, sn.AvgM, rn.AvgSLrn, rn.AvgM)
        sb == IF err > 0 THEN MulFx(err, ONE - sy.LWt) ELSE MulFx(err, sy.LWt)
    IN  [sy EXCEPT !.DWt = MulFx(Learn.Lrate, sb)]

\* Prjn.DWt on the synapse sy from sending neuron sn to receiving neuron rn
DWtSyn(sn, rn, sy) ==
    LET err == CHLdWt(sn.AvgSLrn, sn.AvgM, rn.AvgSLrn, rn.AvgM)
        sb == IF err > 0 THEN MulFx(err, ONE - sy.LWt) ELSE MulFx(err, sy.LWt)
    IN  [sy EXCEPT !.DWt = sy.DWt + MulFx(Learn.Lrate, sb)]

\* Prjn.DWt (Scale variant), with the learning averages sns of the sending and
\* rns of the receiving neurons
DWt(sns, rns) ==
    /\ ~panicked
    /\ variant = "Scale"
    /\ nops < MaxOps
    /\ Syns' = IF NoLearn THEN Syns
               ELSE [i \in SynIds |->
                       LET sn == sns[SynSend(i)]
                       IN  IF sn.AvgS < Learn.XCal.LrnThr /\ sn.AvgM < Learn.XCal.LrnThr
                           THEN Syns[i]
                           ELSE DWtSyn(sn, rns[SConIdx(i)], Syns[i])]
    /\ nops' = nops + 1
    /\ last' = [op |-> "DWt", sns |-> sns, rns |-> rns, pre |-> Syns, preG |-> GScale]
    /\ UNCHANGED <<variant, Con, Typ, Com, Gidx, Gbuf, GScale, Learn, Neurons, file,
                   panicked, cyc, sendPos, PlusPhase, sched, IsTarget,
                   SWt,
                   SWtMeans,
                   rpj,
                   pj2>>

\* the synapses of receiver ri whose DWt is beyond the threshold thr
OverThr(ri, thr) ==
    {i \in SynIds : SConIdx(i) = ri /\ (Syns[i].DWt > thr \/ Syns[i].DWt < 0 - thr)}

\* sum of DWt over the synapses in S
RECURSIVE SumDWt(_)
SumDWt(S) ==
    IF S = {} THEN 0
    ELSE LET i == CHOOSE j \in S : TRUE IN Syns[i].DWt + SumDWt(S \ {i})

\* float32 quotient of x by the whole number n
DivInt(x, n) == Sgn(x) * (Abs(x) \div n)

\* the mean taken over every synapse of the receiver
DWtSubMeanSynAll(i, thr) ==
    LET S == OverThr(SConIdx(i), thr)
    IN  IF Cardinality(S) > 1 /\ i \in S
        THEN [Syns[i] EXCEPT
                 !.DWt = Syns[i].DWt
                           - MulFx(Learn.XCal.SubMean, DivInt(SumDWt(S), RConN(SConIdx(i))))]
        ELSE Syns[i]

\* Prjn.DWtSubMean on synapse i: the mean of the receiver's DWt beyond the
\* threshold is subtracted when more than one is beyond it
DWtSubMeanSyn(i, thr) ==
    LET S == OverThr(SConIdx(i), thr)
    IN  IF Cardinality(S) > 1 /\ i \in S
        THEN [Syns[i] EXCEPT
                 !.DWt = Syns[i].DWt - MulFx(Learn.XCal.SubMean, DivInt(SumDWt(S), Cardinality(S)))]
        ELSE Syns[i]

\* Prjn.DWtSubMean (Scale variant)
DWtSubMean ==
    /\ ~panicked
    /\ variant = "Scale"
    /\ nops < MaxOps
    /\ Syns' = IF NoLearn \/ Learn.XCal.SubMean = 0 \/ IsTarget THEN Syns
               ELSE [i \in SynIds |-> DWtSubMeanSyn(i, MulFx(Learn.XCal.DWtThr, Learn.Lrate))]
    /\ nops' = nops + 1
    /\ last' = [op |-> "DWtSubMean", pre |-> Syns, preG |-> GScale]
    /\ UNCHANGED <<variant, Con, Typ, Com, Gidx, Gbuf, GScale, Learn, Neurons, file,
                   panicked, cyc, sendPos, PlusPhase, sched, IsTarget,
                   SWt,
                   SWtMeans,
                   rpj,
                   pj2>>

\* a Scale projection after InitWts (weight w on every synapse) and a pass
\* of weight changes dwts
InitLearn ==
    /\ variant = "Scale"
    /\ Con = PatUpper
    /\ Typ = "Forward"
    /\ GScale = GScaleInit(ONE)
    /\ Com = [Delay |-> 0]
    /\ Gidx = BuildGidx(0)
    /\ Gbuf = BuildGbuf(0)
    /\ Learn = [Learn |-> TRUE, Lrate |-> LrateDef, LrateInit |-> LrateDef,
                WtSig |-> [Gain |-> 6, Off |-> ONE],
                XCal |-> XCal]
    /\ \E w \in {0, Half, ONE}, scale \in ScaleVals, dwts \in SpreadOver({0 - ONE, 0, ONE}) :
          Syns = [i \in SynIds |->
                    [InitWtsSyn(Learn.WtSig, scale, w) EXCEPT !.DWt = dwts[i]]]
    /\ Neurons = ZeroNeurons
    /\ file = NoFile
    /\ panicked = FALSE
    /\ cyc = 0
    /\ sendPos = 0
    /\ PlusPhase = FALSE
    /\ nops = 0
    /\ sched = ZeroSched
    /\ last = NoOp
    /\ pj2 = BuildPrjn("Forward", 0)
    /\ rpj = NoRpj
    /\ SWtMeans = [ri \in Recvs |-> Half]
    /\ SWt = SWtDefaults
    /\ IsTarget = FALSE

SpecLearn ==
    InitLearn /\ [][\/ \E wbInc \in {0, ONE, ONE + Half}, wbDec \in {0, ONE, ONE + Half}, fails \in {{}, {0}} :
                          WtFmDWt(wbInc, wbDec, fails)
                    \/ \E adapt \in BOOLEAN, lr \in {Half}, adif \in [Recvs -> {0 - Half, Half}] :
                          SlowAdapt(adapt, lr, adif)
                    \/ \E sidx \in Senders, ridx \in Recvs, val \in {Half + 3, ONE} :
                          SetSynVal("Wt", sidx, ridx, val)
                    \/ \E sns \in [Senders -> {[AvgS |-> 0, AvgM |-> 0, AvgSLrn |-> 0],
                                                [AvgS |-> ONE, AvgM |-> ONE, AvgSLrn |-> ONE]}],
                          rns \in [Recvs -> {[AvgSLrn |-> ONE, AvgM |-> Half],
                                              [AvgSLrn |-> Half, AvgM |-> ONE]}] :
                          DWt(sns, rns)
                    \/ DWtSubMean]_vars

\* a Scale projection after InitWts and a pass of weight changes, with learning
\* on or off and a target or hidden receiving layer
InitFrame ==
    /\ variant = "Scale"
    /\ Con = PatUpper
    /\ Typ = "Forward"
    /\ \E am \in {0, 4 * ONE}, sc \in ScaleVals :
          GScale = [GScaleInit(sc) EXCEPT !.AvgMax = am]
    /\ Com = [Delay |-> 0]
    /\ Gidx = BuildGidx(0)
    /\ Gbuf = BuildGbuf(0)
    /\ \E lrn \in BOOLEAN :
          Learn = [Learn |-> lrn, Lrate |-> LrateDef, LrateInit |-> LrateDef,
                   WtSig |-> [Gain |-> 6, Off |-> ONE],
                   XCal |-> XCal]
    /\ \E w \in {Half, ONE}, dwts \in SpreadOver({0 - ONE, ONE}) :
          Syns = [i \in SynIds |->
                    [InitWtsSyn(Learn.WtSig, ONE, w) EXCEPT !.DWt = dwts[i]]]
    /\ Neurons = ZeroNeurons
    /\ file = NoFile
    /\ panicked = FALSE
    /\ cyc = 0
    /\ sendPos = 0
    /\ PlusPhase = FALSE
    /\ nops = 0
    /\ sched = ZeroSched
    /\ last = NoOp
    /\ pj2 = BuildPrjn("Forward", 0)
    /\ rpj = NoRpj
    /\ SWtMeans = [ri \in Recvs |-> Half]
    /\ SWt = SWtDefaults
    /\ IsTarget \in BOOLEAN

SpecFrame ==
    InitFrame /\ [][\/ \E wbInc \in {0, ONE, ONE + Half}, wbDec \in {0, ONE, ONE + Half}, fails \in {{}, {0}} :
                          WtFmDWt(wbInc, wbDec, fails)
                    \/ \E adapt \in BOOLEAN, lr \in {Half}, adif \in [Recvs -> {0 - Half, Half}] :
                          SlowAdapt(adapt, lr, adif)
                    \/ \E sns \in [Senders -> {[AvgS |-> 0, AvgM |-> 0, AvgSLrn |-> 0],
                                                [AvgS |-> ONE, AvgM |-> ONE, AvgSLrn |-> ONE]}],
                          rns \in [Recvs -> {[AvgSLrn |-> ONE, AvgM |-> Half],
                                              [AvgSLrn |-> Half, AvgM |-> ONE]}] :
                          DWt(sns, rns)
                    \/ DWtSubMean]_vars

\* ---------------------------------------------------------- mean subtraction
\* a learning Scale projection after a pass of weight changes, with a hidden
\* or target receiving layer, any SubMean and a threshold DWtThr * Lrate of 0
\* or of one unit
InitSubMean ==
    /\ variant = "Scale"
    /\ Con \in {PatFull, PatUpper}
    /\ Typ = "Forward"
    /\ GScale = GScaleInit(ONE)
    /\ Com = [Delay |-> 0]
    /\ Gidx = BuildGidx(0)
    /\ Gbuf = BuildGbuf(0)
    /\ \E lr \in {LrateDef, ONE}, sm \in {0, Half, ONE} :
          Learn = [Learn |-> TRUE, Lrate |-> lr, LrateInit |-> lr,
                   WtSig |-> [Gain |-> 6, Off |-> ONE],
                   XCal |-> [XCal EXCEPT !.SubMean = sm]]
    /\ \E dwts \in SpreadOver({0 - ONE, 0, 1, ONE}) :
          Syns = [i \in SynIds |->
                    [InitWtsSyn(Learn.WtSig, ONE, Half) EXCEPT !.DWt = dwts[i]]]
    /\ Neurons = ZeroNeurons
    /\ file = NoFile
    /\ panicked = FALSE
    /\ cyc = 0
    /\ sendPos = 0
    /\ PlusPhase = FALSE
    /\ nops = 0
    /\ sched = ZeroSched
    /\ last = NoOp
    /\ pj2 = BuildPrjn("Forward", 0)
    /\ rpj = NoRpj
    /\ SWtMeans = [ri \in Recvs |-> Half]
    /\ SWt = SWtDefaults
    /\ IsTarget \in BOOLEAN

SpecSubMean ==
    InitSubMean /\ [][DWtSubMean]_vars

\* C24: DWtSubMean on a learning projection, for each receiver of a non-target
\* layer with more than one incoming synapse whose |DWt| exceeds DWtThr *
\* Lrate, subtracts SubMean times the mean DWt of exactly those synapses, the
\* mean taken before any subtraction, from each of them; every other synapse,
\* and every synapse of a target layer or with SubMean = 0, keeps its DWt;
\* with SubMean = 1 the DWt of the contributing synapses of a processed
\* receiver sum to 0 afterwards, within one unit of the model's resolution for
\* each synapse (the quotient by the count is truncated).
C24_SubMean ==
    LET thr == MulFx(Learn.XCal.DWtThr, Learn.Lrate)
        Over(ri) == {i \in SynIds : SConIdx(i) = ri /\ Abs(last.pre[i].DWt) > thr}
        RECURSIVE Sum(_, _)
        Sum(syns, S) ==
            IF S = {} THEN 0
            ELSE LET i == CHOOSE j \in S : TRUE IN syns[i].DWt + Sum(syns, S \ {i})
        Processed(ri) ==
            ~IsTarget /\ Learn.XCal.SubMean # 0 /\ Cardinality(Over(ri)) > 1
    IN  last.op = "DWtSubMean" =>
            /\ \A i \in SynIds :
                  LET S == Over(SConIdx(i))
                  IN  /\ Syns[i].DWt =
                            IF Processed(SConIdx(i)) /\ i \in S
                            THEN last.pre[i].DWt
                                   - MulFx(Learn.XCal.SubMean,
                                           DivInt(Sum(last.pre, S), Cardinality(S)))
                            ELSE last.pre[i].DWt
                      /\ [Syns[i] EXCEPT !.DWt = 0] = [last.pre[i] EXCEPT !.DWt = 0]
            /\ \A ri \in Recvs :
                  (Processed(ri) /\ Learn.XCal.SubMean = ONE)
                      => Abs(Sum(Syns, Over(ri))) < Cardinality(Over(ri))

\* C24 witness: a receiver with two synapses above the threshold and one at
\* the threshold had half of the mean of the two subtracted from each of them.
C24_Witness ==
    /\ last.op = "DWtSubMean" /\ ~IsTarget /\ Learn.XCal.SubMean = Half
    /\ MulFx(Learn.XCal.DWtThr, Learn.Lrate) = 1
    /\ \E i, j, k \in SynIds :
          /\ i # j /\ SConIdx(i) = SConIdx(j) /\ SConIdx(j) = SConIdx(k)
          /\ last.pre[i].DWt = ONE /\ last.pre[j].DWt = ONE /\ last.pre[k].DWt = 1
          /\ Syns[i].DWt = Half /\ Syns[j].DWt = Half /\ Syns[k].DWt = 1

\* ------------------------------------------------------------ trial protocol
\* TrainNet, one pattern: net.DWt() after the cycles and the plus phase of the
\* trial; Prjn.DWt with the learning averages the trial left in the layers
TrialDWt(sns, rns) ==
    /\ ~panicked
    /\ cyc = MaxCycle
    /\ last.op = "RecvGInc"
    /\ Syns' = IF NoLearn THEN Syns
               ELSE [i \in SynIds |->
                       LET sn == sns[SynSend(i)]
                       IN  IF sn.AvgS < Learn.XCal.LrnThr /\ sn.AvgM < Learn.XCal.LrnThr
                           THEN Syns[i]
                           ELSE DWtSyn(sn, rns[SConIdx(i)], Syns[i])]
    /\ last' = [op |-> "DWt", sns |-> sns, rns |-> rns, pre |-> Syns, preG |-> GScale]
    /\ UNCHANGED <<variant, Con, Typ, Com, Gidx, Gbuf, GScale, Learn, Neurons, file,
                   panicked, cyc, sendPos, PlusPhase, nops, sched, IsTarget, SWt,
                   SWtMeans, rpj, pj2>>

\* TrainNet, one pattern: net.WtFmDWt() right after net.DWt(); Prjn.WtFmDWt
\* ends the trial
TrialWtFmDWt(wbInc, wbDec, fails) ==
    /\ ~panicked
    /\ last.op = "DWt"
    /\ Syns' = IF NoLearn THEN Syns
               ELSE [i \in SynIds |->
                       ComFail(WtFmDWtSyn(Learn.WtSig, wbInc, wbDec, Syns[i]), i \in fails)]
    /\ nops' = nops + 1
    /\ last' = [op |-> "WtFmDWt", wbInc |-> wbInc, wbDec |-> wbDec, fails |-> fails,
                pre |-> Syns, preG |-> GScale]
    /\ UNCHANGED <<variant, Con, Typ, Com, Gidx, Gbuf, GScale, Learn, Neurons, file,
                   panicked, cyc, sendPos, PlusPhase, sched, IsTarget, SWt, SWtMeans,
                   rpj, pj2>>

\* TrainNet, the next pattern: net.NewState() and ltime.NewState() start the
\* cycles of the next trial in the minus phase
NewState ==
    /\ ~panicked
    /\ last.op = "WtFmDWt"
    /\ nops < MaxTrials
    /\ cyc' = 0
    /\ sendPos' = 0
    /\ PlusPhase' = FALSE
    /\ sched' = ZeroSched
    /\ last' = [op |-> "NewState"]
    /\ UNCHANGED <<variant, Con, Typ, Com, Gidx, Gbuf, GScale, Syns, Learn, Neurons,
                   file, panicked, nops, IsTarget, SWt, SWtMeans, rpj, pj2>>

\* a Scale projection after Build and InitWts, before the first trial
InitTrial ==
    /\ variant = "Scale"
    /\ Con = PatUpper
    /\ Typ = "Forward"
    /\ GScale = GScaleInit(ONE)
    /\ \E ws \in WtSigSets, w \in InitWtVals : InitCommon(ws, w, 0)

\* the trial loop of TrainNet: in each cycle the middle sending neuron spikes
\* or is silent, the last cycle of a trial is its plus phase, then DWt and
\* WtFmDWt
SpecTrial ==
    InitTrial /\ [][\/ SendSpike(1)
                    \/ RecvGInc(cyc = MaxCycle - 1)
                    \/ \E sns \in [Senders -> {[AvgS |-> 0, AvgM |-> 0, AvgSLrn |-> 0],
                                                [AvgS |-> ONE, AvgM |-> ONE, AvgSLrn |-> ONE]}],
                          rn \in {[AvgSLrn |-> ONE, AvgM |-> Half],
                                  [AvgSLrn |-> Half, AvgM |-> ONE]} :
                          TrialDWt(sns, [ri \in Recvs |-> rn])
                    \/ \E fails \in {{}, {0}} : TrialWtFmDWt(ONE, ONE, fails)
                    \/ NewState]_vars

\* ------------------------------------------------- trial protocol: properties
\* C21: after WtFmDWt on a learning projection every synapse has DWt = 0; under
\* the trial protocol DWt is 0 for every synapse from the start of a trial to
\* its DWt call, so the change DWt computes starts from 0 and WtFmDWt applies
\* only the change of its own trial.
C21_DWtZeroAtTrialStart ==
    /\ (last.op = "WtFmDWt" /\ Learn.Learn) => \A i \in SynIds : Syns[i].DWt = 0
    /\ last.op \in {"Build", "NewState", "SendSpike", "RecvGInc"}
          => \A i \in SynIds : Syns[i].DWt = 0
    /\ last.op = "DWt" => \A i \in SynIds : last.pre[i].DWt = 0

\* C21 witness: the DWt call of the second trial, after the first trial
\* changed a weight, computed a change for some synapse.
C21_Witness ==
    /\ last.op = "DWt" /\ nops = 1
    /\ \E i \in SynIds : Syns[i].DWt # 0
    /\ \E i \in SynIds : Syns[i].LWt # LinFmSigWt(Learn.WtSig, Half)
                           /\ Syns[i].LWt # LinFmSigWt(Learn.WtSig, ONE)

\* C26: in WtFmDWt a synapse with DWt = 0 keeps LWt and DWt; its Wt, if 0, is
\* set to Scale * SigFmLinWt(LWt), and otherwise is left as it is (the
\* transmission failure that Prjn.WtFmDWt applies afterwards sets the Wt of a
\* failing synapse to 0 whatever the learning rule wrote).
C26_RestoreFailedWt ==
    (last.op = "WtFmDWt" /\ Learn.Learn) =>
        \A i \in SynIds :
            LET old == last.pre[i]
                new == Syns[i]
            IN  old.DWt = 0 =>
                    /\ new.LWt = old.LWt
                    /\ new.DWt = old.DWt
                    /\ new.Scale = old.Scale
                    /\ (i \notin last.fails /\ old.Wt = 0) =>
                          new.Wt = MulFx(old.Scale, SigFmLinWt(Learn.WtSig, old.LWt))
                    /\ (i \notin last.fails /\ old.Wt # 0) => new.Wt = old.Wt
                    /\ i \in last.fails => new.Wt = 0

\* C26 witness: a weight that a transmission failure left at 0 comes back
\* from its linear weight, next to an unchanged synapse with a nonzero weight.
C26_Witness ==
    /\ last.op = "WtFmDWt" /\ Learn.Learn
    /\ \E i \in SynIds : /\ last.pre[i].DWt = 0 /\ last.pre[i].Wt = 0
                          /\ i \notin last.fails /\ Syns[i].Wt > 0
    /\ \E i \in SynIds : /\ last.pre[i].DWt = 0 /\ last.pre[i].Wt # 0
                          /\ i \notin last.fails

\* ------------------------------------------------------ learning: properties
\* C9: the linear weight of every synapse stays in [0,1] through any sequence
\* of weight commits, slow adaptation and SetSynVal("Wt") with valid weights.
C9_LWtInRange == \A i \in SynIds : Syns[i].LWt >= 0 /\ Syns[i].LWt <= ONE

\* C10: from a linear weight in [0,1] and with non-negative weight-balance
\* factors, WtFmDWt with DWt > 0 never decreases LWt and never leaves it
\* above 1, and with DWt < 0 never increases LWt and never leaves it below 0.
C10_SoftBound ==
    last.op = "WtFmDWt" =>
        \A i \in SynIds :
            LET old == last.pre[i]
                new == Syns[i]
            IN  (old.LWt >= 0 /\ old.LWt <= ONE /\ last.wbInc >= 0 /\ last.wbDec >= 0) =>
                    /\ old.DWt > 0 => (new.LWt >= old.LWt /\ new.LWt <= ONE)
                    /\ old.DWt < 0 => (new.LWt <= old.LWt /\ new.LWt >= 0)
                    /\ old.DWt > 0 =>
                          new.LWt = ClampLWt(old.LWt
                                       + MulFx(old.DWt, MulFx(last.wbInc, ONE - old.LWt)))
                    /\ old.DWt < 0 =>
                          new.LWt = ClampLWt(old.LWt
                                       + MulFx(old.DWt, MulFx(last.wbDec, old.LWt)))

C10_Witness ==
    /\ last.op = "WtFmDWt"
    /\ \E i \in SynIds :
          /\ last.pre[i].DWt > 0
          /\ last.pre[i].LWt < ONE
          /\ Syns[i].LWt = ONE
    /\ \E j \in SynIds :
          /\ last.pre[j].DWt < 0
          /\ last.pre[j].LWt > 0
          /\ Syns[j].LWt = 0

\* C22: Prjn.DWt on a learning projection adds Lrate * err to the DWt of each
\* synapse of a sender that passes the learning threshold, err being the XCAL
\* delta times (1 - LWt) when positive and times LWt otherwise; it changes no
\* Wt, LWt or Scale, and no DWt of a sender whose AvgS and AvgM are both
\* below Learn.XCal.LrnThr.
C22_DWtAccumulates ==
    (last.op = "DWt" /\ Learn.Learn) =>
        \A i \in SynIds :
            LET sn == last.sns[SynSend(i)]
                rn == last.rns[SConIdx(i)]
                old == last.pre[i]
                err == XCalDWt(Learn.XCal, MulFx(sn.AvgSLrn, rn.AvgSLrn),
                               MulFx(sn.AvgM, rn.AvgM))
            IN  /\ Syns[i].Wt = old.Wt
                /\ Syns[i].LWt = old.LWt
                /\ Syns[i].Scale = old.Scale
                /\ Syns[i].DWt - old.DWt =
                      IF sn.AvgS < Learn.XCal.LrnThr /\ sn.AvgM < Learn.XCal.LrnThr THEN 0
                      ELSE IF err > 0
                      THEN MulFx(Learn.Lrate, MulFx(err, ONE - old.LWt))
                      ELSE MulFx(Learn.Lrate, MulFx(err, old.LWt))

\* C22 witness: one DWt call added a change to a pending change of one synapse
\* and left the pending change of a synapse of a silent sender as it was.
C22_Witness ==
    /\ last.op = "DWt" /\ Learn.Learn
    /\ \E i \in SynIds : /\ last.pre[i].DWt # 0
                          /\ Syns[i].DWt # last.pre[i].DWt
                          /\ Syns[i].DWt # 0
    /\ \E i \in SynIds : /\ last.sns[SynSend(i)].AvgS < Learn.XCal.LrnThr
                          /\ last.pre[i].DWt # 0
                          /\ Syns[i].DWt = last.pre[i].DWt

C12_TargetNoop ==
    (last.op = "SlowAdapt" /\ IsTarget) =>
        /\ Syns = last.pre
        /\ GScale = last.preG

\* C15: after AdaptGScale with learning and adaptation on and Orig >= 0 the
\* scale is at least 0.2 * Orig; with adaptation off GScale is unchanged.
C15_GScaleFloor ==
    last.op = "SlowAdapt" =>
        /\ (Learn.Learn /\ last.adapt /\ GScale.Orig >= 0)
              => GScale.Scale >= MulFx(ONE \div 5, GScale.Orig)
        /\ ~last.adapt => GScale = last.preG

C15_Witness ==
    /\ last.op = "SlowAdapt"
    /\ Learn.Learn
    /\ last.adapt
    /\ last.preG.Scale = ONE
    /\ GScale.Orig = ONE
    /\ GScale.Scale = MulFx(ONE \div 5, ONE)

\* ------------------------------------------- structural weight rescaling
\* SWtParams.ClipSWt: the structural weight kept within Limit.SWt
ClipSWt(x) ==
    IF x < SWt.Limit.SWt.Min THEN SWt.Limit.SWt.Min
    ELSE IF x > SWt.Limit.SWt.Max THEN SWt.Limit.SWt.Max
    ELSE x

\* SWtParams.WtVal: the effective weight of a structural and a linear weight
WtVal(swt, lwt) == MulFx(swt, SigFmLinWt(Learn.WtSig, lwt))

\* pj.RSynIdx[st : st+nc]: the synapse slots of receiver ri
RecvSyns(ri) == {RSynIdx(p) : p \in RConIdxSt(ri) .. (RConIdxSt(ri) + RConN(ri) - 1)}

\* sum of the SWt of the synapse slots S of syns
RECURSIVE SumSWt(_, _)
SumSWt(syns, S) ==
    IF S = {} THEN 0
    ELSE LET i == CHOOSE j \in S : TRUE IN syns[i].SWt + SumSWt(syns, S \ {i})

\* a rescaling pass that goes on with a single connection and with a
\* receiver that is off
SWtRescaleSkipOne(ri, nc, same) == nc < 1 \/ same

\* the receivers a rescaling pass leaves alone: nrn.IsOff(), nc <= 1, and
\* same, the test of the ratio or difference of the target and the mean
SWtRescaleSkip(ri, nc, same) == Neurons[ri].Off \/ nc <= 1 \/ same

\* Prjn.SWtRescaleDiv: the synapses after the pass over every receiver; nmin
\* and nmax count the synapses of the receiver at or beyond a bound
SWtRescaleDiv(syns) ==
    [i \in SynIds |->
        LET ri == SConIdx(i)
            smn == SWtMeans[ri]
            nc == RConN(ri)
            sum == SumSWt(syns, RecvSyns(ri))
            nmin == Cardinality({k \in RecvSyns(ri) : syns[k].SWt <= SWt.Limit.SWt.Min})
            nmax == Cardinality({k \in RecvSyns(ri) :
                                    syns[k].SWt > SWt.Limit.SWt.Min
                                        /\ syns[k].SWt >= SWt.Limit.SWt.Max})
            mdf0 == DivFx(smn, DivInt(sum, nc))
            sy == syns[i]
        IN  IF SWtRescaleSkip(ri, nc, mdf0 = ONE) THEN sy
            ELSE IF mdf0 > ONE
            THEN LET mdf == IF nmax > 0 /\ nmax < nc
                            THEN DivFx(smn, DivInt(sum, nc - nmax)) ELSE mdf0
                     swt == ClipSWt(MulFx(sy.SWt, mdf))
                 IN  IF sy.SWt <= SWt.Limit.SWt.Max
                     THEN [sy EXCEPT !.SWt = swt, !.Wt = WtVal(swt, sy.LWt)]
                     ELSE sy
            ELSE LET mdf == IF nmin > 0 /\ nmin < nc
                            THEN DivFx(smn, DivInt(sum, nc - nmin)) ELSE mdf0
                     swt == ClipSWt(MulFx(sy.SWt, mdf))
                 IN  IF sy.SWt >= SWt.Limit.SWt.Min
                     THEN [sy EXCEPT !.SWt = swt, !.Wt = WtVal(swt, sy.LWt)]
                     ELSE sy]

\* Prjn.SWtRescaleSub: the synapses after the pass over every receiver; nmin
\* and nmax count the synapses of the receiver at or beyond a bound
SWtRescaleSub(syns) ==
    [i \in SynIds |->
        LET ri == SConIdx(i)
            smn == SWtMeans[ri]
            nc == RConN(ri)
            sum == SumSWt(syns, RecvSyns(ri))
            nmin == Cardinality({k \in RecvSyns(ri) : syns[k].SWt <= SWt.Limit.SWt.Min})
            nmax == Cardinality({k \in RecvSyns(ri) :
                                    syns[k].SWt > SWt.Limit.SWt.Min
                                        /\ syns[k].SWt >= SWt.Limit.SWt.Max})
            mdf0 == smn - DivInt(sum, nc)
            sy == syns[i]
        IN  IF SWtRescaleSkip(ri, nc, mdf0 = 0) THEN sy
            ELSE IF mdf0 > 0
            THEN LET mdf == IF nmax > 0 /\ nmax < nc
                            THEN smn - DivInt(sum, nc - nmax) ELSE mdf0
                     swt == ClipSWt(sy.SWt + mdf)
                 IN  IF sy.SWt <= SWt.Limit.SWt.Max
                     THEN [sy EXCEPT !.SWt = swt, !.Wt = WtVal(swt, sy.LWt)]
                     ELSE sy
            ELSE LET mdf == IF nmin > 0 /\ nmin < nc
                            THEN smn - DivInt(sum, nc - nmin) ELSE mdf0
                     swt == ClipSWt(sy.SWt + mdf)
                 IN  IF sy.SWt >= SWt.Limit.SWt.Min
                     THEN [sy EXCEPT !.SWt = swt, !.Wt = WtVal(swt, sy.LWt)]
                     ELSE sy]

\* Prjn.SWtRescale: subtractive when SWt.Adapt.SubNorm, else divisive
SWtRescale ==
    /\ ~panicked
    /\ variant = "SWt"
    /\ nops < MaxOps
    /\ Syns' = IF SWt.Adapt.SubNorm THEN SWtRescaleSub(Syns) ELSE SWtRescaleDiv(Syns)
    /\ nops' = nops + 1
    /\ last' = [op |-> "SWtRescale", pre |-> Syns, preG |-> GScale]
    /\ UNCHANGED <<variant, Con, Typ, Com, Gidx, Gbuf, GScale, Learn, Neurons, file,
                   panicked, cyc, sendPos, PlusPhase, sched, IsTarget, SWt, SWtMeans,
                   rpj,
                   pj2>>

\* a structural projection whose structural weights were set one by one
\* (SetSynVal "SWt") and whose target means were adapted, before a rescaling
InitRescale ==
    /\ variant = "SWt"
    /\ Con \in {PatFull, PatSkipFirst, PatUpper}
    /\ Typ = "Forward"
    /\ GScale = GScaleInit(ONE)
    /\ Com = [Delay |-> 0]
    /\ Gidx = BuildGidx(0)
    /\ Gbuf = BuildGbuf(0)
    /\ Learn = [Learn |-> TRUE, Lrate |-> LrateDef, LrateInit |-> LrateDef,
                WtSig |-> [Gain |-> 6, Off |-> ONE],
                XCal |-> XCal]
    /\ \E sub \in BOOLEAN : SWt = [SWtDefaults EXCEPT !.Adapt.SubNorm = sub]
    /\ \E smn \in {Half - 1, Half} : SWtMeans = [ri \in Recvs |-> smn]
    /\ \E swts \in SpreadOver({SWt.Limit.SWt.Min, Half, SWt.Limit.SWt.Max}) :
          Syns = [i \in SynIds |->
                    [Wt |-> WtVal(swts[i], Half), LWt |-> Half, SWt |-> swts[i],
                     DWt |-> 0]]
    /\ \E off \in [Recvs -> BOOLEAN] :
          Neurons = [ri \in Recvs |-> [GeRaw |-> 0, GiRaw |-> 0, Off |-> off[ri]]]
    /\ file = NoFile
    /\ panicked = FALSE
    /\ cyc = 0
    /\ sendPos = 0
    /\ PlusPhase = FALSE
    /\ nops = 0
    /\ sched = ZeroSched
    /\ last = NoOp
    /\ pj2 = BuildPrjn("Forward", 0)
    /\ rpj = NoRpj
    /\ IsTarget = FALSE

SpecRescale ==
    InitRescale /\ [][SWtRescale]_vars

\* ------------------------------------------------- rescaling properties
\* C13: for a receiver with at least 3 incoming synapses whose mean SWt is
\* off its target and with a synapse not saturated at a bound, one SWtRescale
\* pass leaves the mean SWt strictly closer to the target (read for a receiver
\* whose neuron is on: the pass skips the others).
\* MeanDist is nc times the distance of the mean SWt of ri from its target.
C13_RescaleConverges ==
    LET MeanDist(syns, ri) ==
            Abs(SumSWt(syns, RecvSyns(ri)) - RConN(ri) * SWtMeans[ri])
        Unsaturated(syns, ri) ==
            \E i \in RecvSyns(ri) :
                syns[i].SWt > SWt.Limit.SWt.Min /\ syns[i].SWt < SWt.Limit.SWt.Max
    IN  last.op = "SWtRescale" =>
            \A ri \in Recvs :
                (RConN(ri) >= 3 /\ ~Neurons[ri].Off /\ MeanDist(last.pre, ri) # 0
                                /\ Unsaturated(last.pre, ri))
                    => MeanDist(Syns, ri) < MeanDist(last.pre, ri)

\* C27: SWtRescale, divisive or subtractive, leaves every incoming synapse
\* of a receiver unchanged (SWt, LWt and Wt) when the receiver has fewer than
\* 2 connections, when its neuron is off, and when the mean SWt of its
\* synapses equals its target.
C27_RescaleSkips ==
    last.op = "SWtRescale" =>
        \A ri \in Recvs :
            (\/ RConN(ri) < 2
             \/ Neurons[ri].Off
             \/ SumSWt(last.pre, RecvSyns(ri)) = RConN(ri) * SWtMeans[ri]) =>
                \A i \in RecvSyns(ri) :
                    /\ Syns[i].SWt = last.pre[i].SWt
                    /\ Syns[i].LWt = last.pre[i].LWt
                    /\ Syns[i].Wt = last.pre[i].Wt

\* C27 witness: one pass that changes a receiver and leaves another alone:
\* one with a single connection off its target, one that is off and off its
\* target, or one whose unequal weights average to the target.
C27_Witness ==
    /\ last.op = "SWtRescale"
    /\ \E i \in SynIds : Syns[i].SWt # last.pre[i].SWt
    /\ \E ri \in Recvs :
          LET sum == SumSWt(last.pre, RecvSyns(ri))
              nc == RConN(ri)
          IN  \/ nc = 1 /\ ~Neurons[ri].Off /\ sum # nc * SWtMeans[ri]
              \/ nc >= 2 /\ Neurons[ri].Off /\ sum # nc * SWtMeans[ri]
              \/ /\ nc >= 2 /\ ~Neurons[ri].Off /\ sum = nc * SWtMeans[ri]
                 /\ \E i, j \in RecvSyns(ri) : last.pre[i].SWt # last.pre[j].SWt

\* ------------------------------------------------ symmetry initialization
\* rpj.SConN, rpj.SConIdxSt, rpj.SConIdx: the sender view of the reciprocal
\* projection, whose senders are the receivers of pj
RECURSIVE RpjCountBelow(_, _)
RpjCountBelow(rsi, x) ==
    IF x <= 0 THEN 0
    ELSE RpjCountBelow(rsi, x - 1) + (IF <<rsi, x - 1>> \in rpj.Con THEN 1 ELSE 0)

RECURSIVE RpjSConIdxSt(_)
RpjSConIdxSt(rsi) == IF rsi <= 0 THEN 0 ELSE RpjSConIdxSt(rsi - 1) + RpjCountBelow(rsi - 1, NSend)

RpjSConIdx(k) ==
    CHOOSE x \in Senders :
        \E rsi \in Recvs :
            <<rsi, x>> \in rpj.Con /\ RpjSConIdxSt(rsi) + RpjCountBelow(rsi, x) = k

\* the search loop of InitWtSym from positions up and dn among the
\* connections of rpj's sender rsi: the slot whose receiver is si, or -1
RECURSIVE SymSearch(_, _, _, _)
SymSearch(rsi, si, up, dn) ==
    LET rsnc == RpjCountBelow(rsi, NSend)
        rsst == RpjSConIdxSt(rsi)
    IN  IF up < rsnc /\ RpjSConIdx(rsst + up) = si THEN rsst + up
        ELSE IF dn >= 0 /\ RpjSConIdx(rsst + dn) = si THEN rsst + dn
        ELSE IF up >= rsnc /\ dn < 0 THEN 0 - 1
        ELSE SymSearch(rsi, si, IF up < rsnc THEN up + 1 ELSE up,
                       IF dn >= 0 THEN dn - 1 ELSE dn)

\* the reciprocal slot InitWtSym finds for pj's synapse slot i, or -1
SymFindUpOnly(i) ==
    LET si == SynSend(i)
        rsi == SConIdx(i)
        rsnc == RpjCountBelow(rsi, NSend)
        rsst == RpjSConIdxSt(rsi)
    IN  IF rsnc = 0 THEN 0 - 1
        ELSE LET rist == RpjSConIdx(rsst)
                 ried == RpjSConIdx(rsst + rsnc - 1)
                 up == IF ried > rist THEN (rsnc * (si - rist)) \div (ried - rist) ELSE 0
             IN  IF si < rist \/ si > ried THEN 0 - 1
                 ELSE SymSearch(rsi, si, up, 0 - 1)

SymFind(i) ==
    LET si == SynSend(i)
        rsi == SConIdx(i)
        rsnc == RpjCountBelow(rsi, NSend)
        rsst == RpjSConIdxSt(rsi)
    IN  IF rsnc = 0 THEN 0 - 1
        ELSE LET rist == RpjSConIdx(rsst)
                 ried == RpjSConIdx(rsst + rsnc - 1)
                 up == IF ried > rist THEN (rsnc * (si - rist)) \div (ried - rist) ELSE 0
             IN  IF si < rist \/ si > ried THEN 0 - 1
                 ELSE SymSearch(rsi, si, up, up - 1)

\* rsy.Wt = sy.Wt; rsy.LWt = sy.LWt; rsy.SWt = sy.SWt (Scale variant: rsy.Scale)
SymCopyNoLWt(sy, rsy) ==
    IF variant = "SWt"
    THEN [rsy EXCEPT !.Wt = sy.Wt, !.SWt = sy.SWt]
    ELSE [rsy EXCEPT !.Wt = sy.Wt, !.Scale = sy.Scale]

SymCopy(sy, rsy) ==
    IF variant = "SWt"
    THEN [rsy EXCEPT !.Wt = sy.Wt, !.LWt = sy.LWt, !.SWt = sy.SWt]
    ELSE [rsy EXCEPT !.Wt = sy.Wt, !.LWt = sy.LWt, !.Scale = sy.Scale]

\* a probe loop whose upward cursor stops one slot late
RECURSIVE SymProbeOver(_, _, _, _, _)
SymProbeOver(rsi, si, up, dn, st) ==
    LET rsnc == RpjCountBelow(rsi, NSend)
        rsst == RpjSConIdxSt(rsi)
        doUp == up <= rsnc
        doDn == dn >= 0
        InArray(k) == k >= 0 /\ k < RpjSConIdxSt(NRecv)
        n1 == st.n + 1
        r1 == st.reads \cup (IF doUp THEN {rsst + up} ELSE {})
        r2 == r1 \cup (IF doDn THEN {rsst + dn} ELSE {})
    IN  IF doUp /\ ~InArray(rsst + up)
        THEN [n |-> n1, reads |-> r1, slot |-> 0 - 1, ok |-> FALSE]
        ELSE IF doUp /\ RpjSConIdx(rsst + up) = si
        THEN [n |-> n1, reads |-> r1, slot |-> rsst + up, ok |-> TRUE]
        ELSE IF doDn /\ ~InArray(rsst + dn)
        THEN [n |-> n1, reads |-> r2, slot |-> 0 - 1, ok |-> FALSE]
        ELSE IF doDn /\ RpjSConIdx(rsst + dn) = si
        THEN [n |-> n1, reads |-> r2, slot |-> rsst + dn, ok |-> TRUE]
        ELSE IF ~doUp /\ ~doDn
        THEN [n |-> n1, reads |-> r2, slot |-> 0 - 1, ok |-> TRUE]
        ELSE SymProbeOver(rsi, si, IF doUp THEN up + 1 ELSE up, IF doDn THEN dn - 1 ELSE dn,
                    [n |-> n1, reads |-> r2])

\* the probe loop of InitWtSym as it runs from the cursors up and dn: the
\* number of iterations, the indices of rpj.SConIdx it reads, the slot it
\* finds (or -1), and whether every read was inside the array
RECURSIVE SymProbe(_, _, _, _, _)
SymProbe(rsi, si, up, dn, st) ==
    LET rsnc == RpjCountBelow(rsi, NSend)
        rsst == RpjSConIdxSt(rsi)
        doUp == up < rsnc
        doDn == dn >= 0
        InArray(k) == k >= 0 /\ k < RpjSConIdxSt(NRecv)
        n1 == st.n + 1
        r1 == st.reads \cup (IF doUp THEN {rsst + up} ELSE {})
        r2 == r1 \cup (IF doDn THEN {rsst + dn} ELSE {})
    IN  IF doUp /\ ~InArray(rsst + up)
        THEN [n |-> n1, reads |-> r1, slot |-> 0 - 1, ok |-> FALSE]
        ELSE IF doUp /\ RpjSConIdx(rsst + up) = si
        THEN [n |-> n1, reads |-> r1, slot |-> rsst + up, ok |-> TRUE]
        ELSE IF doDn /\ ~InArray(rsst + dn)
        THEN [n |-> n1, reads |-> r2, slot |-> 0 - 1, ok |-> FALSE]
        ELSE IF doDn /\ RpjSConIdx(rsst + dn) = si
        THEN [n |-> n1, reads |-> r2, slot |-> rsst + dn, ok |-> TRUE]
        ELSE IF ~doUp /\ ~doDn
        THEN [n |-> n1, reads |-> r2, slot |-> 0 - 1, ok |-> TRUE]
        ELSE SymProbe(rsi, si, IF doUp THEN up + 1 ELSE up, IF doDn THEN dn - 1 ELSE dn,
                    [n |-> n1, reads |-> r2])

\* Prjn.InitWtSym(rpj)
InitWtSym ==
    /\ ~panicked
    /\ nops < MaxOps
    /\ rpj' = [rpj EXCEPT !.Syns =
                 [k \in (0 .. (RpjSConIdxSt(NRecv) - 1)) |->
                    IF \E i \in SynIds : SymFind(i) = k
                    THEN SymCopy(Syns[CHOOSE i \in SynIds : SymFind(i) = k], rpj.Syns[k])
                    ELSE rpj.Syns[k]]]
    /\ nops' = nops + 1
    /\ last' = [op |-> "InitWtSym", pre |-> Syns, preG |-> GScale, preR |-> rpj,
                probe |-> [i \in SynIds |->
                    LET si == SynSend(i)
                        rsi == SConIdx(i)
                        rsnc == RpjCountBelow(rsi, NSend)
                        rsst == RpjSConIdxSt(rsi)
                        skip == [up |-> 0, n |-> 0, reads |-> {}, slot |-> 0 - 1, ok |-> TRUE]
                    IN  IF rsnc = 0 THEN skip
                        ELSE LET rist == RpjSConIdx(rsst)
                                 ried == RpjSConIdx(rsst + rsnc - 1)
                                 up == IF ried > rist
                                       THEN (rsnc * (si - rist)) \div (ried - rist) ELSE 0
                                 ends == {rsst, rsst + rsnc - 1}
                             IN  IF si < rist \/ si > ried THEN [skip EXCEPT !.reads = ends]
                                 ELSE LET p == SymProbe(rsi, si, up, up - 1,
                                                        [n |-> 0, reads |-> ends])
                                      IN  [up |-> up, n |-> p.n, reads |-> p.reads,
                                           slot |-> p.slot, ok |-> p.ok]]]
    /\ panicked' = \E i \in SynIds : ~last'.probe[i].ok
    /\ UNCHANGED <<variant, Con, Typ, Com, Gidx, Gbuf, GScale, Syns, Learn, Neurons,
                   file, cyc, sendPos, PlusPhase, sched, IsTarget, SWt,
                   SWtMeans,
                   pj2>>

\* a synapse as the variant's InitWts leaves it
SynInit(w, scale) ==
    IF variant = "SWt" THEN SynSetWt(w) ELSE InitWtsSyn(Learn.WtSig, scale, w)

\* pj and rpj built and initialized one after the other, before InitWtSym
InitSym ==
    /\ variant \in {"SWt", "Scale"}
    /\ Con \in {PatFull, PatUpper}
    /\ Typ = "Forward"
    /\ GScale = GScaleInit(ONE)
    /\ Com = [Delay |-> 0]
    /\ Gidx = BuildGidx(0)
    /\ Gbuf = BuildGbuf(0)
    /\ Learn = [Learn |-> TRUE, Lrate |-> LrateDef, LrateInit |-> LrateDef,
                WtSig |-> [Gain |-> 6, Off |-> ONE],
                XCal |-> XCal]
    /\ \E wts \in SpreadOver(InitWtVals) : Syns = [i \in SynIds |-> SynInit(wts[i], Half)]
    /\ \E rc \in {Recvs \X Senders, {p \in Recvs \X Senders : p[2] <= p[1]},
                 {p \in Recvs \X Senders : p[2] # 1},
                 {p \in Recvs \X Senders : p[1] # 0}, {}}, w \in InitWtVals :
          rpj = [Con |-> rc,
                 Syns |-> [k \in 0 .. (Cardinality(rc) - 1) |-> SynInit(w, ONE)],
                 Gbuf |-> [k \in 0 .. (NSend - 1) |-> 0]]
    /\ Neurons = ZeroNeurons
    /\ file = NoFile
    /\ panicked = FALSE
    /\ cyc = 0
    /\ sendPos = 0
    /\ PlusPhase = FALSE
    /\ nops = 0
    /\ sched = ZeroSched
    /\ last = NoOp
    /\ pj2 = BuildPrjn("Forward", 0)
    /\ SWtMeans = [ri \in Recvs |-> Half]
    /\ SWt = SWtDefaults
    /\ IsTarget = FALSE

SpecSym ==
    InitSym /\ [][\/ InitWtSym
                  \/ \E si \in Senders : SendSpike(si)]_vars

\* ------------------------------------------------- symmetry properties
\* the structural factor of a synapse: SWt, or Scale in the Scale variant
StruFactor(sy) == IF variant = "SWt" THEN sy.SWt ELSE sy.Scale

\* C14: after pj.InitWtSym(rpj) on a fully connected reciprocal pair, every
\* synapse si -> ri of pj and the synapse ri -> si of rpj have equal Wt, LWt
\* and structural factor, and no synapse of pj is modified.
C14_SymInit ==
    (last.op = "InitWtSym" /\ (Con = PatFull /\ rpj.Con = (Recvs \X Senders))) =>
        /\ Syns = last.pre
        /\ \A i \in SynIds :
              LET sy == Syns[i]
                  rsy == rpj.Syns[RpjSConIdxSt(SConIdx(i))
                                    + RpjCountBelow(SConIdx(i), SynSend(i))]
              IN  /\ rsy.Wt = sy.Wt
                  /\ rsy.LWt = sy.LWt
                  /\ StruFactor(rsy) = StruFactor(sy)

C14_Witness ==
    /\ last.op = "InitWtSym"
    /\ (Con = PatFull /\ rpj.Con = (Recvs \X Senders))
    /\ \E i, j \in SynIds : Syns[i].Wt # Syns[j].Wt
    /\ \E k \in (0 .. (RpjSConIdxSt(NRecv) - 1)) : /\ rpj.Syns[k].Wt # last.preR.Syns[k].Wt
                            /\ rpj.Syns[k].LWt # last.preR.Syns[k].LWt
                            /\ StruFactor(rpj.Syns[k]) # StruFactor(last.preR.Syns[k])

\* C25: InitWtSym does what a scan of all pairs does: for every synapse
\* ri -> si of rpj, if pj has the synapse si -> ri then Wt, LWt and the
\* structural factor of the rpj synapse are those of the pj synapse and its
\* other fields are unchanged, otherwise the rpj synapse keeps its values;
\* pj synapses without a reciprocal are skipped without error.
C25_SymFullScan ==
    last.op = "InitWtSym" =>
        /\ ~panicked
        /\ DOMAIN rpj.Syns = DOMAIN last.preR.Syns
        /\ \A rsi \in Recvs, si \in Senders :
              <<rsi, si>> \in rpj.Con =>
                 LET k == RpjSConIdxSt(rsi) + RpjCountBelow(rsi, si)
                     rsy == rpj.Syns[k]
                     old == last.preR.Syns[k]
                 IN  IF <<si, rsi>> \in Con
                     THEN LET sy == Syns[SConIdxSt(si) + CountBelow(si, rsi)]
                          IN  /\ rsy.Wt = sy.Wt
                              /\ rsy.LWt = sy.LWt
                              /\ StruFactor(rsy) = StruFactor(sy)
                              /\ \A f \in DOMAIN rsy \ {"Wt", "LWt", "SWt", "Scale"} :
                                    rsy[f] = old[f]
                     ELSE rsy = old

C25_Witness ==
    /\ last.op = "InitWtSym"
    /\ ~panicked
    /\ \E p \in Con : <<p[2], p[1]>> \notin rpj.Con
    /\ \E p \in rpj.Con : <<p[2], p[1]>> \notin Con
    /\ \E p \in Con : <<p[2], p[1]>> \in rpj.Con
    /\ \E k \in DOMAIN rpj.Syns : rpj.Syns[k].Wt # last.preR.Syns[k].Wt

\* C30: the probe loop of InitWtSym ends for every synapse of pj: it starts
\* from an offset up in [0, rsnc], runs at most rsnc + 1 iterations, reads
\* rpj.SConIdx only inside [rsst, rsst + rsnc), the connections of rpj's
\* sender ri, and the slot it reports holds si.
C30_ProbeTerminates ==
    last.op = "InitWtSym" =>
        /\ ~panicked
        /\ \A i \in SynIds :
              LET p == last.probe[i]
                  rsnc == RpjCountBelow(SConIdx(i), NSend)
                  rsst == RpjSConIdxSt(SConIdx(i))
              IN  /\ p.ok
                  /\ p.up >= 0 /\ p.up <= rsnc
                  /\ p.n <= rsnc + 1
                  /\ p.reads \subseteq rsst .. (rsst + rsnc - 1)
                  /\ p.slot # 0 - 1 => RpjSConIdx(p.slot) = SynSend(i)

\* C30 witness: one call in which a probe finds its match on the downward
\* cursor, and a probe passes both ends of the list without a match.
C30_Witness ==
    /\ last.op = "InitWtSym"
    /\ \E i \in SynIds :
          LET p == last.probe[i]
          IN  p.slot # 0 - 1 /\ p.slot < RpjSConIdxSt(SConIdx(i)) + p.up
    /\ \E i \in SynIds :
          LET p == last.probe[i] IN p.n >= 2 /\ p.slot = 0 - 1

\* C18: no operation on pj writes a synapse or a Gbuf slot of another
\* projection: every step leaves the arrays of rpj as they were.
C18_OwnArraysOnly == [][rpj'.Syns = rpj.Syns /\ rpj'.Gbuf = rpj.Gbuf]_vars

\* Prjn.RecvGInc of projection p into the neurons nrns: the projection and the
\* neurons after the call, and the value drained for each receiver
RecvOn(p, nrns, plus) ==
    LET d == RecvLoop([buf |-> p.Gbuf, nrn |-> nrns, max |-> 0, avg |-> 0, n |-> 0,
                       inc |-> [ri \in Recvs |-> 0], ok |-> TRUE],
                      0, p.Com.Delay + 1, p.Gidx.Zi, p.Typ = "Inhib")
    IN  [prj |-> [p EXCEPT !.Gbuf = d.buf,
                           !.GScale = IF plus \/ ~d.ok THEN @ ELSE StatsUpdate(@, d),
                           !.Gidx = IF d.ok THEN GidxShift(@, 1) ELSE @],
         nrn |-> d.nrn, inc |-> d.inc, ok |-> d.ok]

\* both drains started from the same neuron values, the second result kept
LayerDrainStale(first, plus) ==
    IF first = 1
    THEN LET r1 == RecvOn(([Typ |-> Typ, Com |-> Com, Gidx |-> Gidx, Gbuf |-> Gbuf, GScale |-> GScale]), Neurons, plus)
             r2 == RecvOn(pj2, Neurons, plus)
         IN  [p1 |-> r1, p2 |-> r2, nrn |-> r2.nrn]
    ELSE LET r2 == RecvOn(pj2, Neurons, plus)
             r1 == RecvOn(([Typ |-> Typ, Com |-> Com, Gidx |-> Gidx, Gbuf |-> Gbuf, GScale |-> GScale]), Neurons, plus)
         IN  [p1 |-> r1, p2 |-> r2, nrn |-> r1.nrn]

\* Layer.RecvGInc: the RecvGInc of each receiving projection, one after the
\* other; first is the projection drained first
LayerDrain(first, plus) ==
    IF first = 1
    THEN LET r1 == RecvOn(([Typ |-> Typ, Com |-> Com, Gidx |-> Gidx, Gbuf |-> Gbuf, GScale |-> GScale]), Neurons, plus)
             r2 == RecvOn(pj2, r1.nrn, plus)
         IN  [p1 |-> r1, p2 |-> r2, nrn |-> r2.nrn]
    ELSE LET r2 == RecvOn(pj2, Neurons, plus)
             r1 == RecvOn(([Typ |-> Typ, Com |-> Com, Gidx |-> Gidx, Gbuf |-> Gbuf, GScale |-> GScale]), r2.nrn, plus)
         IN  [p1 |-> r1, p2 |-> r2, nrn |-> r1.nrn]

LayerRecvGInc(first, plus) ==
    /\ ~panicked
    /\ nops < MaxOps
    /\ PlusPhase => plus
    /\ LET r == LayerDrain(first, plus)
       IN  /\ Gbuf' = r.p1.prj.Gbuf
           /\ Gidx' = r.p1.prj.Gidx
           /\ GScale' = r.p1.prj.GScale
           /\ pj2' = r.p2.prj
           /\ Neurons' = r.nrn
           /\ panicked' = ~(r.p1.ok /\ r.p2.ok)
           /\ last' = [op |-> "LayerRecvGInc", first |-> first, plus |-> plus,
                       inc |-> r.p1.inc, inc2 |-> r.p2.inc, preN |-> Neurons]
    /\ PlusPhase' = plus
    /\ cyc' = cyc + 1
    /\ nops' = nops + 1
    /\ UNCHANGED <<variant, Con, Typ, Com, Syns, Learn, file, sendPos, sched, IsTarget,
                   SWt, SWtMeans, rpj>>

\* two projections into one layer with conductance waiting in their buffers
InitLayer ==
    /\ variant = "SWt"
    /\ Con = PatFull
    /\ Typ \in {"Inhib", "Forward"}
    /\ GScale = GScaleInit(ONE)
    /\ Com = [Delay |-> 0]
    /\ Gidx = BuildGidx(0)
    /\ Gbuf \in [0 .. (NRecv - 1) -> {0, Half}]
    /\ \E typ \in {"Inhib", "Forward"}, buf \in [0 .. (NRecv - 1) -> {0, ONE}] :
          pj2 = [BuildPrjn(typ, 0) EXCEPT !.Gbuf = buf]
    /\ Learn = [Learn |-> TRUE, Lrate |-> LrateDef, LrateInit |-> LrateDef,
                WtSig |-> [Gain |-> 6, Off |-> ONE],
                XCal |-> XCal]
    /\ Syns = [i \in SynIds |-> SynSetWt(Half)]
    /\ \E ge \in {0, 3}, gi \in {0, 3} :
          Neurons = [ri \in Recvs |-> [GeRaw |-> ge, GiRaw |-> gi]]
    /\ file = NoFile
    /\ panicked = FALSE
    /\ cyc = 0
    /\ sendPos = 0
    /\ PlusPhase = FALSE
    /\ nops = 0
    /\ sched = ZeroSched
    /\ last = NoOp
    /\ rpj = NoRpj
    /\ SWtMeans = [ri \in Recvs |-> Half]
    /\ SWt = SWtDefaults
    /\ IsTarget = FALSE

SpecLayer ==
    InitLayer /\ [][\E first \in {1, 2}, plus \in BOOLEAN : LayerRecvGInc(first, plus)]_vars

\* C19: after the projections into one layer were drained one at a time, each
\* accumulator of each neuron is its prior value plus the values drained by
\* each projection, whichever projection was drained first.
\* GePart and GiPart are the parts of a drained value that a projection of a
\* type adds to the excitatory and to the inhibitory accumulator.
C19_DrainsAdd ==
    LET GePart(typ, inc) == IF typ = "Inhib" THEN 0 ELSE inc
        GiPart(typ, inc) == IF typ = "Inhib" THEN inc ELSE 0
    IN  /\ \A plus \in BOOLEAN : LayerDrain(1, plus).nrn = LayerDrain(2, plus).nrn
        /\ last.op = "LayerRecvGInc" =>
              \A ri \in Recvs :
                  /\ Neurons[ri].GeRaw = last.preN[ri].GeRaw + GePart(Typ, last.inc[ri])
                                            + GePart(pj2.Typ, last.inc2[ri])
                  /\ Neurons[ri].GiRaw = last.preN[ri].GiRaw + GiPart(Typ, last.inc[ri])
                                            + GiPart(pj2.Typ, last.inc2[ri])

\* C19 witness: both projections are excitatory, the second one was drained
\* first, and a neuron that held conductance received a positive value from each.
C19_Witness ==
    /\ last.op = "LayerRecvGInc" /\ last.first = 2
    /\ Typ = "Forward" /\ pj2.Typ = "Forward"
    /\ \E ri \in Recvs :
          /\ last.preN[ri].GeRaw > 0
          /\ last.inc[ri] > 0
          /\ last.inc2[ri] > 0
          /\ Neurons[ri].GeRaw = last.preN[ri].GeRaw + last.inc[ri] + last.inc2[ri]

\* ------------------------------------------- weight transform round trip
\* ws.SigFmLinWt(lw), the result kept for the way back
CallSigFmLinWt(lw) ==
    /\ last.op = "Build"
    /\ last' = [op |-> "SigFmLinWt", lw |-> lw, sw |-> SigFmLinWt(Learn.WtSig, lw)]
    /\ UNCHANGED <<variant, Con, Typ, Com, Gidx, Gbuf, GScale, Syns, Learn, Neurons,
                   file, panicked, cyc, sendPos, PlusPhase, nops, sched, IsTarget, SWt,
                   SWtMeans, rpj, pj2>>

\* ws.LinFmSigWt of the effective weight the latest SigFmLinWt returned
CallLinFmSigWt ==
    /\ last.op = "SigFmLinWt"
    /\ last' = [op |-> "LinFmSigWt", lw |-> last.lw, sw |-> last.sw,
                back |-> LinFmSigWt(Learn.WtSig, last.sw)]
    /\ UNCHANGED <<variant, Con, Typ, Com, Gidx, Gbuf, GScale, Syns, Learn, Neurons,
                   file, panicked, cyc, sendPos, PlusPhase, nops, sched, IsTarget, SWt,
                   SWtMeans, rpj, pj2>>

\* ws.LinFmSigWt(sw) of any effective weight
CallLinFmSigWtOf(sw) ==
    /\ last.op = "Build"
    /\ last' = [op |-> "LinFmSigWtOf", sw |-> sw, back |-> LinFmSigWt(Learn.WtSig, sw)]
    /\ UNCHANGED <<variant, Con, Typ, Com, Gidx, Gbuf, GScale, Syns, Learn, Neurons,
                   file, panicked, cyc, sendPos, PlusPhase, nops, sched, IsTarget, SWt,
                   SWtMeans, rpj, pj2>>

\* a projection with any of the parameter sets of the transform
InitTransform ==
    /\ variant = "Scale"
    /\ Con = PatFull
    /\ Typ = "Forward"
    /\ GScale = GScaleInit(ONE)
    /\ \E ws \in WtSigSets : InitCommon(ws, Half, 0)
    /\ rpj = NoRpj
    /\ pj2 = BuildPrjn("Forward", 0)

SpecTransform ==
    InitTransform /\ [][\/ \E lw \in (0 - 2) .. (ONE + 2) : CallSigFmLinWt(lw)
                        \/ CallLinFmSigWt
                        \/ \E sw \in (0 - 2) .. (ONE + 2) : CallLinFmSigWtOf(sw)]_vars

\* C20: LinFmSigWt(SigFmLinWt(x)) is x, within the tolerance, for x strictly
\* inside (0,1) on the identity, the fast and the general path, and both maps
\* return 0 for inputs <= 0 and 1 for inputs >= 1.  The tolerance is one unit
\* of the model's resolution, and the round trip is stated for the upper half
\* of the interval, where the absolute resolution of the model stands for the
\* resolution of float32 next to 1.
C20_RoundTrip ==
    /\ last.op = "SigFmLinWt" =>
          /\ last.lw <= 0 => last.sw = 0
          /\ last.lw >= ONE => last.sw = ONE
    /\ last.op = "LinFmSigWtOf" =>
          /\ last.sw <= 0 => last.back = 0
          /\ last.sw >= ONE => last.back = ONE
    /\ (last.op = "LinFmSigWt" /\ last.lw >= Half /\ last.lw < ONE) =>
          Abs(last.back - last.lw) <= 1

\* ------------------------------------------------------ check-mark function
\* xc.Update() on parameters with the given DRev and DThr, then xc.DWt(sr, thr)
CallXCalDWt(drev, dthr, sr, thr) ==
    /\ last.op = "Build"
    /\ LET xc == XCalUpdate([XCal EXCEPT !.DRev = drev, !.DThr = dthr])
       IN  last' = [op |-> "XCalDWt", xc |-> xc, sr |-> sr, thr |-> thr,
                    ret |-> XCalDWt(xc, sr, thr)]
    /\ UNCHANGED <<variant, Con, Typ, Com, Gidx, Gbuf, GScale, Syns, Learn, Neurons,
                   file, panicked, cyc, sendPos, PlusPhase, nops, sched, IsTarget, SWt,
                   SWtMeans, rpj, pj2>>

\* the check-mark function on products of activations in [0,1], with the
\* reversal point at 0, 1/8 and 1/2 of the threshold and DThr 0 or one unit
SpecXCal ==
    InitTransform /\ [][\E drev \in {0, ONE \div 8, Half}, dthr \in {0, 1},
                           sr \in 0 .. ONE, thr \in 0 .. ONE :
                           CallXCalDWt(drev, dthr, sr, thr)]_vars

\* C23 as stated: XCalParams.DWt(sr, thr) is 0 when sr < DThr, sr - thr when
\* sr >= DThr and sr > thr*DRev, and sr*DRevRatio otherwise, with DRevRatio =
\* -(1-DRev)/DRev for DRev > 0 and -1 for DRev = 0; for sr >= DThr and thr >= 0
\* the result is non-negative exactly when sr >= thr, and the two non-zero
\* branches agree at the reversal point sr = thr*DRev.  The agreement is
\* stated for the thresholds whose reversal point is a value of the model's
\* resolution, within one unit of that resolution.
C23_CheckMark ==
    last.op = "XCalDWt" =>
        LET xc == last.xc
            sr == last.sr
            thr == last.thr
        IN  /\ xc.DRevRatio = IF xc.DRev > 0 THEN 0 - DivFx(ONE - xc.DRev, xc.DRev)
                               ELSE 0 - ONE
            /\ sr < xc.DThr => last.ret = 0
            /\ (sr >= xc.DThr /\ sr > MulFx(thr, xc.DRev)) => last.ret = sr - thr
            /\ (sr >= xc.DThr /\ sr <= MulFx(thr, xc.DRev))
                  => last.ret = MulFx(sr, xc.DRevRatio)
            /\ sr >= xc.DThr => ((last.ret >= 0) <=> (sr >= thr))
            /\ (sr * ONE = thr * xc.DRev)
                  => Abs((sr - thr) - MulFx(sr, xc.DRevRatio)) <= 1

\* C23 amended: the same, with the sign of the result stated for DThr > 0 and
\* the agreement of the branches for DRev > 0.
C23_CheckMarkAmended ==
    last.op = "XCalDWt" =>
        LET xc == last.xc
            sr == last.sr
            thr == last.thr
        IN  /\ xc.DRevRatio = IF xc.DRev > 0 THEN 0 - DivFx(ONE - xc.DRev, xc.DRev)
                               ELSE 0 - ONE
            /\ sr < xc.DThr => last.ret = 0
            /\ (sr >= xc.DThr /\ sr > MulFx(thr, xc.DRev)) => last.ret = sr - thr
            /\ (sr >= xc.DThr /\ sr <= MulFx(thr, xc.DRev))
                  => last.ret = MulFx(sr, xc.DRevRatio)
            /\ (xc.DThr > 0 /\ sr >= xc.DThr) => ((last.ret >= 0) <=> (sr >= thr))
            /\ (xc.DRev > 0 /\ sr * ONE = thr * xc.DRev)
                  => Abs((sr - thr) - MulFx(sr, xc.DRevRatio)) <= 1

\* C23 witness: a call at a reversal point above DThr returned the negative
\* value on which the two branches agree.
C23_Witness ==
    /\ last.op = "XCalDWt"
    /\ last.xc.DRev > 0 /\ last.xc.DThr > 0
    /\ last.sr >= last.xc.DThr
    /\ last.sr * ONE = last.thr * last.xc.DRev
    /\ last.ret < 0
    /\ last.ret = last.sr - last.thr
    /\ last.ret = MulFx(last.sr, last.xc.DRevRatio)

====
